---- MODULE Spec2Model ----
(***************************************************************************)
(* FloatAI dashboard (Float-Deck): the top-level session state of App, the *)
(* welcome load with its retries and cache fallback, the chat interface    *)
(* with its session counter, the fetch client with its fallbacks (both     *)
(* copies of it), the detail loads of the map, the persona mode and the    *)
(* expert filters of DataVisualization, and the pure functions of the      *)
(* sources applied on their own: the normalizer, the synopsis, the         *)
(* statistics, the filter pipeline and the complexity heuristic.           *)
(*                                                                         *)
(* JavaScript values are tagged records: [null |-> TRUE] is null or        *)
(* undefined, [str |-> s] a string, [num |-> n] a number, [arr |-> q] an   *)
(* array.  A result row is the sequence of its <<column, value>> pairs in  *)
(* key order, as Object.keys enumerates them.                              *)
(***************************************************************************)
EXTENDS Integers, Sequences, FiniteSets, TLC

VARIABLES
    \* App (src/unnamed/part_002, function App)
    appData, dataSynopsis, isLoading, backendStatus, backendStatusDetail,
    chatInstanceKey, activeTab, mode, complexityScore, recentQueries,
    expertFilters, fleetOverview,
    \* window.localStorage[WELCOME_CACHE_KEY]
    welcomeCache,
    \* the mounted ChatInterface instance
    messages, chatIsLoading, sessionIdRef, summarySignatureRef,
    \* asynchronous operations in flight
    loads, chatReqs, fleetPending,
    \* the fetch client called directly: the clock and the calls made
    now, apiLog,
    \* InteractiveOceanMap: the selection, the detail state, the detail loads in flight
    selectedFloatId, variable, details, detailsLoading, detailRuns,
    \* a pure function of the sources applied on its own: its arguments, its result
    callArgs, callResult,
    \* history: what the last step was and which callbacks it invoked
    ev, nPrompts, nResets, nSelects

vars == << appData, dataSynopsis, isLoading, backendStatus, backendStatusDetail,
           chatInstanceKey, activeTab, mode, complexityScore, recentQueries,
           expertFilters, fleetOverview, welcomeCache,
           messages, chatIsLoading, sessionIdRef, summarySignatureRef,
           loads, chatReqs, fleetPending, now, apiLog,
           selectedFloatId, variable, details, detailsLoading, detailRuns,
           callArgs, callResult, ev, nPrompts, nResets, nSelects >>

appVars == << appData, dataSynopsis, isLoading, backendStatus, backendStatusDetail,
              chatInstanceKey, activeTab, mode, complexityScore, recentQueries,
              expertFilters, fleetOverview, welcomeCache >>
chatVars == << messages, chatIsLoading, sessionIdRef, summarySignatureRef >>
asyncVars == << loads, chatReqs, fleetPending >>
apiVars == << now, apiLog >>
mapVars == << selectedFloatId, variable, details, detailsLoading, detailRuns, nSelects >>
callVars == << callArgs, callResult >>
viewVars == << mapVars, callVars >>

\* no function is being applied on its own
NoCall == [none |-> TRUE]

----------------------------------------------------------------------------
\* Bounds of the model

\* prompts submitted in one run of SpecHandlers
MaxPrompts == 2
\* prompts submitted in one run of Spec
MaxPagePrompts == 1
\* clicks on the chat's Reset button in one run
MaxResets == 1
\* error-boundary resets (handleChatHardReset) in one run
MaxHardResets == 1
\* user gestures (prompts, Reset clicks, error-boundary resets) in one run of Spec
MaxGestures == 2
\* calls of the fetch client in one run of SpecApi
MaxApiCalls == 2
\* clock ticks in one run of SpecApi
MaxTicks == 2

----------------------------------------------------------------------------
\* JavaScript values

Null == [null |-> TRUE]
Str(s) == [str |-> s]
Num(n) == [num |-> n]
Arr(q) == [arr |-> q]

IsNull(v) == "null" \in DOMAIN v
IsStr(v) == "str" \in DOMAIN v
IsNum(v) == "num" \in DOMAIN v
IsArr(v) == "arr" \in DOMAIN v

\* String.prototype.trim on the strings of the model
Trim(s) ==
    CASE s = "   " -> ""
      [] s = " 5905612 " -> "5905612"
      [] s = " narrative " -> "narrative"
      [] OTHER -> s

\* JavaScript truthiness
Truthy(v) ==
    CASE IsNull(v) -> FALSE
      [] IsStr(v) -> v.str # ""
      [] IsNum(v) -> v.num # 0
      [] OTHER -> TRUE

\* value && value.trim() for a string value; a text built from a template
\* (a record such as [pulled |-> 2]) is never blank
NonBlank(v) ==
    CASE IsNull(v) -> FALSE
      [] IsStr(v) -> Trim(v.str) # ""
      [] OTHER -> TRUE

TrimValue(v) == IF IsStr(v) THEN Str(Trim(v.str)) ELSE v

\* String(n) for the numbers of the model
NumToString(n) ==
    CASE n = 7 -> "7"
      [] n = 10 -> "10"
      [] n = 200 -> "200"
      [] OTHER -> "n"

\* row[key]: the value of the first pair with that key, undefined when absent
RECURSIVE GetFrom(_, _, _)
GetFrom(row, key, i) ==
    IF i > Len(row) THEN Null
    ELSE IF row[i][1] = key THEN row[i][2]
    ELSE GetFrom(row, key, i + 1)
Get(row, key) == GetFrom(row, key, 1)

\* Object.keys(row)
Keys(row) == [i \in 1..Len(row) |-> row[i][1]]

\* Array.from(new Set(q)): first occurrences, in order
RECURSIVE Distinct(_)
Distinct(q) ==
    IF q = << >> THEN << >>
    ELSE LET rest == Distinct(SubSeq(q, 1, Len(q) - 1))
             last == q[Len(q)]
         IN IF \E i \in 1..Len(rest) : rest[i] = last THEN rest
            ELSE Append(rest, last)

----------------------------------------------------------------------------
\* Result sets the backend can return

\* the user gestures made so far
Gestures == nPrompts + nResets + chatInstanceKey

RowA == << << "float_id", Str("5905612") >>, << "pressure", Num(10) >> >>
RowB == << << "float_id", Str("5905613") >>, << "pressure", Num(200) >> >>
DataOne == << RowA >>
DataTwo == << RowA, RowB >>
DataSets == { << >>, DataOne, DataTwo }

----------------------------------------------------------------------------
\* createDataSynopsis (part_002:507-601)

\* the identifier of a row: float_id ?? float ?? id, as a trimmed string or null
RowRawId(row) ==
    IF ~IsNull(Get(row, "float_id")) THEN Get(row, "float_id")
    ELSE IF ~IsNull(Get(row, "float")) THEN Get(row, "float")
    ELSE Get(row, "id")

RowFloatId(row) ==
    LET raw == RowRawId(row)
    IN CASE IsNull(raw) -> Null
         [] IsStr(raw) -> IF Trim(raw.str) # "" THEN Str(Trim(raw.str)) ELSE Null
         [] IsNum(raw) -> Str(NumToString(raw.num))
         [] OTHER -> Str("[object]")

IsStrValue(v) == IsStr(v) /\ Truthy(v)

\* an extraction that keeps the first two distinct identifiers
SynopsisFloatIds_Capped(data) ==
    LET all == Distinct(SelectSeq([i \in 1..Len(data) |-> RowFloatId(data[i])], IsStrValue))
    IN SubSeq(all, 1, IF Len(all) > 2 THEN 2 ELSE Len(all))

SynopsisFloatIds(data) ==
    Distinct(SelectSeq([i \in 1..Len(data) |-> RowFloatId(data[i])], IsStrValue))

NumericColumns(data) ==
    LET columns == Keys(data[1])
        HasNumber(c) == \E i \in 1..Len(data) : IsNum(Get(data[i], c))
    IN SelectSeq(columns, HasNumber)

createDataSynopsis(data) ==
    IF Len(data) = 0 THEN Null
    ELSE LET columns == Keys(data[1])
             floatIds == SynopsisFloatIds(data)
         IN [ signature |-> [sig |-> << Len(data), columns, Len(floatIds) >>],
              headline |-> << Len(data), "records across",
                              IF Len(floatIds) # 0 THEN Num(Len(floatIds)) ELSE Str("several"),
                              "floats" >>,
              highlights |->
                  (IF Len(floatIds) # 0 THEN << << "Sample float", floatIds[1] >> >> ELSE << >>)
                  \o (IF Len(NumericColumns(data)) # 0
                      THEN << << "Numeric fields detected",
                                 SubSeq(NumericColumns(data), 1,
                                        IF Len(NumericColumns(data)) > 3 THEN 3
                                        ELSE Len(NumericColumns(data))) >> >>
                      ELSE << >>),
              columns |-> columns,
              sampleFloat |-> IF Len(floatIds) # 0 THEN floatIds[1] ELSE Null ]

----------------------------------------------------------------------------
\* The AI endpoint: POST /api/ask

\* an AIResponse payload (api.ts:65-71)
Payload(error, result, sql) ==
    [ error |-> error, result_data |-> result, sql_query |-> sql, messages |-> Null ]

Payloads ==
    { Payload(Null, Arr(DataOne), Str("SELECT 1")),
      Payload(Null, Arr(DataTwo), Str("SELECT 1")),
      Payload(Null, Arr(<< >>), Str("SELECT 1")),
      Payload(Null, Arr(DataOne), Str("")),
      Payload(Str("boom"), Null, Null),
      Payload(Null, Str(" narrative "), Null),
      Payload(Null, Null, Null) }

\* what the network does with one request: fetch rejects, the status is not 2xx,
\* the body is no JSON, or the body parses to a payload (null is valid JSON)
NetFailures == { [net |-> "reject"], [net |-> "status"], [net |-> "badjson"] }
AskFailures == { [net |-> "reject"], [net |-> "status"] }
NetOutcomes ==
    AskFailures \cup { [net |-> "ok", body |-> p] : p \in Payloads \cup { Null } }

ConnectErrorText == "Could not connect to the AI server. Is it running?"

\* askAI (part_002:1623-1649): every failure becomes an error payload
askAI(outcome) ==
    IF outcome.net = "ok" THEN outcome.body
    ELSE [ sql_query |-> Str("Error connecting to backend."),
           result_data |-> Null,
           messages |-> Null,
           error |-> Str(ConnectErrorText) ]

----------------------------------------------------------------------------
\* The slice of App state that the welcome load and the chat callbacks write

AppSlice ==
    [ appData |-> appData, dataSynopsis |-> dataSynopsis, isLoading |-> isLoading,
      backendStatus |-> backendStatus, backendStatusDetail |-> backendStatusDetail,
      activeTab |-> activeTab, welcomeCache |-> welcomeCache ]

SetApp(s) ==
    /\ appData' = s.appData
    /\ dataSynopsis' = s.dataSynopsis
    /\ isLoading' = s.isLoading
    /\ backendStatus' = s.backendStatus
    /\ backendStatusDetail' = s.backendStatusDetail
    /\ activeTab' = s.activeTab
    /\ welcomeCache' = s.welcomeCache

\* BACKEND_STATUS_MAP[status].description (part_002:484-503)
StatusBaseline(status) ==
    CASE status = "operational" -> "All systems nominal."
      [] status = "degraded" -> "Serving cached insights while the backend stabilizes."
      [] OTHER -> "Backend unreachable"

\* updateBackendStatus (part_002:640-644)
updateBackendStatus(s, status, detail) ==
    [ s EXCEPT !.backendStatus = status,
               !.backendStatusDetail =
                   IF NonBlank(detail) THEN detail ELSE Str(StatusBaseline(status)) ]

\* a handler that installs the result set and leaves the synopsis of the last one
handleDataReceived_KeepsSynopsis(s, data, sqlQuery) ==
    [ s EXCEPT !.appData = [data |-> data, sqlQuery |-> sqlQuery],
               !.activeTab = "analysis",
               !.isLoading = IF Len(data) # 0 THEN FALSE ELSE s.isLoading ]

\* handleDataReceived (part_002:871-878)
handleDataReceived(s, data, sqlQuery) ==
    [ s EXCEPT !.appData = [data |-> data, sqlQuery |-> sqlQuery],
               !.dataSynopsis = createDataSynopsis(data),
               !.activeTab = "analysis",
               !.isLoading = IF Len(data) # 0 THEN FALSE ELSE s.isLoading ]

----------------------------------------------------------------------------
\* The persisted welcome cache (part_002:646-668)

\* the stored item: none, a string JSON.parse rejects, JSON of another shape, or
\* the JSON of a payload {data, sqlQuery}
NoItem == [item |-> "none"]
GarbageItem == [item |-> "garbage"]
WrongShapeItem == [item |-> "json", value |-> [data |-> Null, sqlQuery |-> Str("SELECT 1")]]
SnapshotItem(payload) ==
    [item |-> "json", value |-> [data |-> Arr(payload.data), sqlQuery |-> Str(payload.sqlQuery)]]

\* persistWelcomeData without its try/catch: the exception of setItem propagates
persistWelcomeData_Propagates(cache, payload, storage) ==
    IF storage = "ok" THEN [threw |-> FALSE, cache |-> SnapshotItem(payload)]
    ELSE [threw |-> TRUE, cache |-> cache]

\* persistWelcomeData: setItem may throw (quota, storage disabled); caught and logged
persistWelcomeData(cache, payload, storage) ==
    IF storage = "ok" THEN [threw |-> FALSE, cache |-> SnapshotItem(payload)]
    ELSE [threw |-> FALSE, cache |-> cache]

\* loadCachedWelcomeData that never finds the snapshot
loadCachedWelcomeData_Ignored(cache, storage) == Null

\* loadCachedWelcomeData: the parsed snapshot, or null
loadCachedWelcomeData(cache, storage) ==
    IF storage # "ok" THEN Null
    ELSE IF cache.item # "json" THEN Null
    ELSE IF IsArr(cache.value.data) /\ IsStr(cache.value.sqlQuery)
         THEN [data |-> cache.value.data.arr, sqlQuery |-> cache.value.sqlQuery.str]
    ELSE Null

----------------------------------------------------------------------------
\* fetchInitialData (part_002:670-725)

maxAttempts == 3
BackoffBaseMs == 400

NoResponse == [none |-> TRUE]

\* the record of the last step; a response of the welcome load is kept in it
Event(kind, id, net, persist, stale, calls) ==
    [ kind |-> kind, id |-> id, net |-> net, response |-> NoResponse,
      persist |-> persist, stale |-> stale, calls |-> calls ]

\* a welcome load: the 0-based attempt of the loop, where the load stands, and the
\* history of its askAI calls, of the delays it waited and of how it ended
NewLoad ==
    [ attempt |-> 0, pc |-> "await", calls |-> 1, delays |-> << >>,
      successes |-> 0, end |-> "running" ]

\* the test of line 684
WelcomeResponseOk(response) ==
    /\ ~IsNull(response)
    /\ ~Truthy(response.error)
    /\ IsArr(response.result_data)
    /\ Truthy(response.sql_query)

\* the synchronous start of fetchInitialData (lines 674-675)
BeginWelcomeLoad(s) ==
    [ updateBackendStatus(s, "operational", Str("Requesting welcome telemetry..."))
        EXCEPT !.isLoading = TRUE ]

\* the body of the try block of one attempt (lines 682-699), given the response
WelcomeAttempt(s, response, storage) ==
    IF WelcomeResponseOk(response)
    THEN LET payload == [data |-> response.result_data.arr,
                         sqlQuery |-> response.sql_query.str]
             s1 == [s EXCEPT !.appData = payload,
                             !.dataSynopsis = createDataSynopsis(payload.data)]
             w == persistWelcomeData(s.welcomeCache, payload, storage)
         IN IF w.threw THEN [s |-> s1, success |-> FALSE]
            ELSE [ s |-> updateBackendStatus([s1 EXCEPT !.welcomeCache = w.cache],
                                             "operational", Str("Live telemetry synced.")),
                   success |-> TRUE ]
    ELSE [s |-> s, success |-> FALSE]

\* a backoff that grows linearly
Backoff_Linear(attempt) == BackoffBaseMs * (attempt + 1)

\* the delay after the 0-based attempt (line 706)
Backoff(attempt) == BackoffBaseMs * (attempt + 1) * (attempt + 1)

\* a loop bound off by one: a retry follows the third attempt too
RetriesAfter_OneMore(attempt) == attempt < maxAttempts

\* whether the loop waits and tries again after a failed attempt (lines 680, 705)
RetriesAfter(attempt) == attempt < maxAttempts - 1

\* a fallback that stores the empty result set it falls back to
WelcomeFallback_StoresFallback(s, storage) ==
    LET cached == loadCachedWelcomeData(s.welcomeCache, storage)
    IN IF ~IsNull(cached)
       THEN [ s |-> updateBackendStatus(
                        [s EXCEPT !.appData = cached,
                                  !.dataSynopsis = createDataSynopsis(cached.data)],
                        "degraded",
                        Str("Loaded cached telemetry while the backend recovers.")),
              end |-> "cached" ]
       ELSE [ s |-> updateBackendStatus(
                        [s EXCEPT !.appData = [data |-> << >>, sqlQuery |-> ""],
                                  !.dataSynopsis = Null,
                                  !.welcomeCache = SnapshotItem([data |-> << >>, sqlQuery |-> ""])],
                        "offline",
                        Str("Initial telemetry failed. Backend unreachable.")),
              end |-> "offline" ]

\* the fallback after the loop (lines 711-722)
WelcomeFallback(s, storage) ==
    LET cached == loadCachedWelcomeData(s.welcomeCache, storage)
    IN IF ~IsNull(cached)
       THEN [ s |-> updateBackendStatus(
                        [s EXCEPT !.appData = cached,
                                  !.dataSynopsis = createDataSynopsis(cached.data)],
                        "degraded",
                        Str("Loaded cached telemetry while the backend recovers.")),
              end |-> "cached" ]
       ELSE [ s |-> updateBackendStatus(
                        [s EXCEPT !.appData = [data |-> << >>, sqlQuery |-> ""],
                                  !.dataSynopsis = Null],
                        "offline",
                        Str("Initial telemetry failed. Backend unreachable.")),
              end |-> "offline" ]

\* a welcome load that returns without clearing the loading flag
EndWelcomeLoad_StillLoading(s) == s

\* the end of fetchInitialData (line 724)
EndWelcomeLoad(s) == [s EXCEPT !.isLoading = FALSE]

\* the summary effect of the mounted chat (ChatInterface.tsx:342-360): it runs when
\* the synopsis object changes and appends one summary per new signature
SummaryMessage(syn) == [sender |-> "assistant", type |-> "summary", content |-> syn.headline]

\* an effect that summarizes every synopsis it is given, the remembered one too
SummaryEffect_EveryTime(msgs, ref, syn) ==
    IF IsNull(syn) THEN [messages |-> msgs, ref |-> ref]
    ELSE [messages |-> Append(msgs, SummaryMessage(syn)), ref |-> syn.signature]

SummaryEffect(msgs, ref, syn) ==
    IF IsNull(syn) THEN [messages |-> msgs, ref |-> ref]
    ELSE IF syn.signature = ref THEN [messages |-> msgs, ref |-> ref]
    ELSE [messages |-> Append(msgs, SummaryMessage(syn)), ref |-> syn.signature]

RunSummaryEffect(syn) ==
    LET e == SummaryEffect(messages, summarySignatureRef, syn)
    IN /\ messages' = e.messages
       /\ summarySignatureRef' = e.ref

StorageOutcomes == { "ok", "throws" }

\* the storage access of a step and how it went, for the record of the step
SetItem(storage) == IF storage = "ok" THEN "setItem ok" ELSE "setItem throws"
GetItem(storage) == IF storage = "ok" THEN "getItem ok" ELSE "getItem throws"

\* an askAI call of a welcome load resolves
WelcomeResponse(i, outcome, storage) ==
    /\ i \in DOMAIN loads
    /\ loads[i].pc = "await"
    /\ LET response == askAI(outcome)
           load == loads[i]
           r == WelcomeAttempt(AppSlice, response, storage)
           f == WelcomeFallback(r.s, storage)
       IN /\ IF r.success
             THEN /\ SetApp(EndWelcomeLoad(r.s))
                  /\ loads' = [loads EXCEPT ![i].pc = "done", ![i].end = "success",
                                             ![i].successes = load.successes + 1]
             ELSE IF RetriesAfter(load.attempt)
             THEN /\ SetApp(r.s)
                  /\ loads' = [loads EXCEPT ![i].pc = "backoff",
                                   ![i].delays = Append(load.delays, Backoff(load.attempt))]
             ELSE /\ SetApp(EndWelcomeLoad(f.s))
                  /\ loads' = [loads EXCEPT ![i].pc = "done", ![i].end = f.end]
          /\ RunSummaryEffect(dataSynopsis')
          /\ ev' = [ Event("welcomeResponse", i, outcome.net,
                           IF WelcomeResponseOk(response) THEN SetItem(storage)
                           ELSE IF ~RetriesAfter(load.attempt) THEN GetItem(storage)
                           ELSE "none",
                           FALSE, {})
                       EXCEPT !.response = response ]
    /\ UNCHANGED viewVars
    /\ UNCHANGED << chatInstanceKey, mode, complexityScore, recentQueries, expertFilters,
                    fleetOverview, chatIsLoading, sessionIdRef, chatReqs, fleetPending,
                    now, apiLog, nPrompts, nResets >>

\* the backoff timer of a welcome load fires: the loop makes its next attempt
BackoffElapsed(i) ==
    /\ i \in DOMAIN loads
    /\ loads[i].pc = "backoff"
    /\ loads' = [loads EXCEPT ![i].pc = "await",
                              ![i].attempt = loads[i].attempt + 1,
                              ![i].calls = loads[i].calls + 1]
    /\ ev' = Event("backoffElapsed", i, "none", "none", FALSE, {})
    /\ UNCHANGED viewVars
    /\ UNCHANGED << appVars, chatVars, chatReqs, fleetPending, apiVars, nPrompts, nResets >>

----------------------------------------------------------------------------
\* ChatInterface (frontend/src/components/ChatInterface.tsx)

\* a prompt: its text and which patterns of evaluateComplexity match it
Prompt(text, advanced, analytic, conditional, geospatial, long, parens) ==
    [ text |-> text, advanced |-> advanced, analytic |-> analytic,
      conditional |-> conditional, geospatial |-> geospatial,
      long |-> long, parens |-> parens ]

Prompts ==
    { Prompt("show recent floats", FALSE, FALSE, FALSE, FALSE, FALSE, FALSE),
      Prompt("rank floats by avg temperature", TRUE, TRUE, FALSE, FALSE, FALSE, FALSE) }

\* evaluateComplexity (lines 111-128)
evaluateComplexity(q) ==
    (IF q.advanced THEN 4 ELSE 0) + (IF q.analytic THEN 2 ELSE 0)
    + (IF q.conditional THEN 1 ELSE 0) + (IF q.geospatial THEN 2 ELSE 0)
    + (IF q.long THEN 2 ELSE 0) + (IF q.parens THEN 1 ELSE 0)

\* a classifier that lowers the score for a query matching one conditional pattern
classifyComplexity_BasicLowers(score) ==
    IF score >= 6 THEN 3
    ELSE IF score >= 4 THEN 2
    ELSE IF score >= 2 THEN 1
    ELSE -1

\* classifyComplexity (lines 130-136): the delta
classifyComplexity(score) ==
    IF score >= 6 THEN 3
    ELSE IF score >= 4 THEN 2
    ELSE IF score >= 2 THEN 1
    ELSE IF score >= 1 THEN 1
    ELSE -1

COMPLEXITY_THRESHOLD == 4
MaxRecentQueries == 8

WelcomeMessage == [sender |-> "assistant", type |-> "welcome", content |-> Str("Welcome to FloatAI")]
UserMessage(text) == [sender |-> "user", type |-> "text", content |-> Str(text)]
AssistantMessage(type, content) == [sender |-> "assistant", type |-> type, content |-> content]

\* extractMessageContent (lines 138-146)
extractMessageContent(value) ==
    IF IsStr(value) THEN value.str
    ELSE IF "text" \in DOMAIN value /\ IsStr(value.text) THEN value.text.str
    ELSE ""

\* normalizeAssistantMessages (lines 148-199); fallbackText is a string value
normalizeAssistantMessages(payload, fallbackText) ==
    LET rawMessages == IF IsArr(payload.messages) THEN payload.messages.arr ELSE << >>
        IsAssistant(entry) == ~IsNull(entry) /\ entry.role = "assistant"
        kept == SelectSeq(rawMessages, IsAssistant)
        Derived(entry) ==
            IF Trim(extractMessageContent(entry.content)) # ""
            THEN Str(Trim(extractMessageContent(entry.content)))
            ELSE fallbackText
        fallbackContent ==
            IF NonBlank(fallbackText) THEN TrimValue(fallbackText)
            ELSE IF IsStr(payload.result_data) /\ Trim(payload.result_data.str) # ""
                 THEN Str(Trim(payload.result_data.str))
            ELSE IF Truthy(payload.error) THEN [errorText |-> payload.error]
            ELSE Str("I'm still processing that")
    IN IF Len(rawMessages) > 0
       THEN [i \in 1..Len(kept) |->
                AssistantMessage(IF IsNull(kept[i].type) THEN "text" ELSE kept[i].type.str,
                                 Derived(kept[i]))]
       ELSE << AssistantMessage(IF Truthy(payload.error) THEN "error" ELSE "text",
                                fallbackContent) >>

\* handleComplexitySignal (part_002:891-906): the recent queries, the score, the mode
RecentAfter(recent, text) ==
    LET NotSame(entry) == entry # Trim(text)
        next == << Trim(text) >> \o SelectSeq(recent, NotSame)
    IN SubSeq(next, 1, IF Len(next) > MaxRecentQueries THEN MaxRecentQueries ELSE Len(next))

ScoreAfter(score, delta) == IF score + delta > 0 THEN score + delta ELSE 0

ModeAfter(m, score, delta) ==
    IF m = "guided" /\ ScoreAfter(score, delta) >= COMPLEXITY_THRESHOLD THEN "expert" ELSE m

\* the fallback text of sendPrompt that puts the string result before the error
fallbackContent_ResultFirst(response) ==
    IF IsStr(response.result_data) /\ Trim(response.result_data.str) # ""
    THEN Str(Trim(response.result_data.str))
    ELSE IF Truthy(response.error) THEN [errorText |-> response.error]
    ELSE IF IsArr(response.result_data)
    THEN IF Len(response.result_data.arr) > 0
         THEN [pulled |-> Len(response.result_data.arr)]
         ELSE Str("The query ran successfully but returned no rows.")
    ELSE Str("I'm not sure how to answer that.")

\* the fallback text sendPrompt passes to the normalizer (lines 395-418)
fallbackContent(response) ==
    IF Truthy(response.error) THEN [errorText |-> response.error]
    ELSE IF IsArr(response.result_data)
    THEN IF Len(response.result_data.arr) > 0
         THEN [pulled |-> Len(response.result_data.arr)]
         ELSE Str("The query ran successfully but returned no rows.")
    ELSE IF IsStr(response.result_data) /\ Trim(response.result_data.str) # ""
    THEN Str(Trim(response.result_data.str))
    ELSE Str("I'm not sure how to answer that.")

\* a completion that installs an empty result set whatever the response is
ChatCompletion_AlwaysInstalls(s, response) ==
    [ s |-> handleDataReceived(s, << >>, ""),
      appended |-> << AssistantMessage("text", Str("I'm not sure how to answer that.")) >>,
      calls |-> { "onDataReceived", "setMessages", "setIsLoading" } ]

\* the part of sendPrompt after the await (lines 391-456) for a response that is
\* not discarded: the App callbacks it invokes, the messages it appends
ChatCompletion(s, response) ==
    IF IsNull(response)
    THEN \* response.error throws a TypeError: the catch block of lines 438-451
         [ s |-> updateBackendStatus(s, "offline", Str("Unable to reach the backend.")),
           appended |-> << AssistantMessage("error", Str("Failed to connect to the AI server.")) >>,
           calls |-> { "setMessages", "onBackendStatusChange", "setIsLoading" } ]
    ELSE IF Truthy(response.error)
    THEN [ s |-> updateBackendStatus(
                     handleDataReceived(s, << >>,
                         IF Truthy(response.sql_query) THEN response.sql_query.str
                         ELSE "Error executing query."),
                     "degraded", response.error),
           appended |-> normalizeAssistantMessages(response, fallbackContent(response)),
           calls |-> { "onDataReceived", "onBackendStatusChange", "setMessages", "setIsLoading" } ]
    ELSE IF IsArr(response.result_data)
    THEN LET data == response.result_data.arr
             sql == IF Truthy(response.sql_query) THEN response.sql_query.str ELSE ""
         IN IF Len(data) > 0
            THEN [ s |-> updateBackendStatus(handleDataReceived(s, data, sql),
                             "operational", [synced |-> Len(data)]),
                   appended |-> normalizeAssistantMessages(response, fallbackContent(response)),
                   calls |-> { "onDataReceived", "onBackendStatusChange", "setMessages",
                               "setIsLoading" } ]
            ELSE [ s |-> updateBackendStatus(handleDataReceived(s, << >>, sql),
                             "degraded", Str("Query returned no rows.")),
                   appended |-> normalizeAssistantMessages(response, fallbackContent(response)),
                   calls |-> { "onDataReceived", "onBackendStatusChange", "setMessages",
                               "setIsLoading" } ]
    ELSE IF IsStr(response.result_data) /\ Trim(response.result_data.str) # ""
    THEN [ s |-> updateBackendStatus(s, "operational",
                     Str("Assistant responded with narrative guidance.")),
           appended |-> normalizeAssistantMessages(response, fallbackContent(response)),
           calls |-> { "onBackendStatusChange", "setMessages", "setIsLoading" } ]
    ELSE [ s |-> updateBackendStatus(s, "degraded",
                     Str("Assistant could not determine an answer.")),
           appended |-> normalizeAssistantMessages(response, fallbackContent(response)),
           calls |-> { "onBackendStatusChange", "setMessages", "setIsLoading" } ]

\* sendPrompt without the session check
Discarded_Never(req) == FALSE

\* the check of lines 391-393: the response belongs to an earlier session
Discarded(req) == sessionIdRef[req.inst] # req.session

\* a sendPrompt that goes on whatever the prompt and the loading flag are
SendAllowed_Always(text, loading) == TRUE

\* the guard of line 364: sendPrompt returns at once for a blank prompt and while
\* isLoading
SendAllowed(text, loading) == Trim(text) # "" /\ ~loading

\* sendPrompt up to its await (lines 362-389); the send controls are disabled and
\* sendPrompt returns at once while isLoading or for a blank prompt
SendPrompt(q) ==
    /\ SendAllowed(q.text, chatIsLoading)
    /\ LET delta == classifyComplexity(evaluateComplexity(q))
       IN /\ recentQueries' = RecentAfter(recentQueries, q.text)
          /\ complexityScore' = ScoreAfter(complexityScore, delta)
          /\ mode' = ModeAfter(mode, complexityScore, delta)
    /\ messages' = Append(messages, UserMessage(Trim(q.text)))
    /\ chatIsLoading' = TRUE
    /\ chatReqs' = chatReqs \cup
           { [ inst |-> chatInstanceKey, session |-> sessionIdRef[chatInstanceKey],
               resetSince |-> FALSE ] }
    /\ nPrompts' = nPrompts + 1
    /\ ev' = Event("sendPrompt", chatInstanceKey, "none", "none", FALSE,
                   { "setMessages", "onComplexitySignal", "setIsLoading" })
    /\ UNCHANGED viewVars
    /\ UNCHANGED << appData, dataSynopsis, isLoading, backendStatus, backendStatusDetail,
                    chatInstanceKey, activeTab, expertFilters, fleetOverview, welcomeCache,
                    sessionIdRef, summarySignatureRef, loads, fleetPending, apiVars,
                    nResets >>

\* the askAI call of a prompt resolves (lines 389-456).  State setters of a chat
\* instance that is no longer mounted have no effect; the App callbacks do.
ChatResponse(req, outcome) ==
    /\ req \in chatReqs
    /\ chatReqs' = chatReqs \ { req }
    /\ LET response == askAI(outcome)
           mounted == req.inst = chatInstanceKey
           c == ChatCompletion(AppSlice, response)
       IN IF Discarded(req)
          THEN /\ UNCHANGED << appData, dataSynopsis, isLoading, backendStatus,
                               backendStatusDetail, activeTab, welcomeCache,
                               messages, chatIsLoading, summarySignatureRef >>
               /\ ev' = Event("chatResponse", req.inst, outcome.net, "none",
                              TRUE, {})
          ELSE /\ SetApp(c.s)
               /\ LET shown == IF mounted THEN messages \o c.appended ELSE messages
                      e == IF "onDataReceived" \in c.calls
                           THEN SummaryEffect(shown, summarySignatureRef, c.s.dataSynopsis)
                           ELSE [messages |-> shown, ref |-> summarySignatureRef]
                  IN /\ messages' = e.messages
                     /\ summarySignatureRef' = e.ref
               /\ chatIsLoading' = IF mounted THEN FALSE ELSE chatIsLoading
               /\ ev' = Event("chatResponse", req.inst, outcome.net, "none",
                              FALSE, c.calls)
    /\ UNCHANGED viewVars
    /\ UNCHANGED << chatInstanceKey, mode, complexityScore, recentQueries, expertFilters,
                    fleetOverview, sessionIdRef, loads, fleetPending, apiVars,
                    nPrompts, nResets >>

\* handleResetConversation (lines 525-540)
HandleResetConversation ==
    /\ nResets < MaxResets
    /\ sessionIdRef' = [sessionIdRef EXCEPT ![chatInstanceKey] = @ + 1]
    /\ messages' = << WelcomeMessage >>
    /\ chatIsLoading' = FALSE
    /\ summarySignatureRef' = Null
    /\ SetApp(updateBackendStatus(handleDataReceived(AppSlice, << >>, ""),
                                  "operational", Str("Chat console reset.")))
    /\ chatReqs' = { IF r.inst = chatInstanceKey THEN [r EXCEPT !.resetSince = TRUE] ELSE r :
                       r \in chatReqs }
    /\ nResets' = nResets + 1
    /\ ev' = Event("reset", chatInstanceKey, "none", "none", FALSE,
                   { "setMessages", "setIsLoading", "onDataReceived", "onBackendStatusChange" })
    /\ UNCHANGED viewVars
    /\ UNCHANGED << chatInstanceKey, mode, complexityScore, recentQueries, expertFilters,
                    fleetOverview, loads, fleetPending, apiVars, nPrompts >>

\* the Reset button (line 574) is disabled while isLoading
ClickReset == ~chatIsLoading /\ HandleResetConversation

DefaultFilters == [focusMetric |-> "temperature", floatId |-> Null, depthRange |-> Null]

\* handleChatHardReset (part_002:1009-1023): the error boundary's reset remounts the
\* chat under a new key and starts a welcome load
HandleChatHardReset ==
    /\ chatInstanceKey < MaxHardResets
    /\ chatInstanceKey' = chatInstanceKey + 1
    /\ SetApp(BeginWelcomeLoad(
                 updateBackendStatus(
                     [AppSlice EXCEPT !.appData = [data |-> << >>, sqlQuery |-> ""],
                                      !.dataSynopsis = Null,
                                      !.activeTab = "analysis"],
                     "operational",
                     Str("Interface reset. Requesting fresh telemetry..."))))
    /\ expertFilters' = DefaultFilters
    /\ recentQueries' = << >>
    /\ complexityScore' = 0
    /\ mode' = "guided"
    /\ loads' = Append(loads, NewLoad)
    /\ messages' = << WelcomeMessage >>
    /\ chatIsLoading' = FALSE
    /\ summarySignatureRef' = Null
    /\ ev' = Event("hardReset", chatInstanceKey + 1, "none", "none", FALSE,
                   { "updateBackendStatus", "fetchInitialData" })
    /\ UNCHANGED viewVars
    /\ UNCHANGED << fleetOverview, sessionIdRef, chatReqs, fleetPending, apiVars,
                    nPrompts, nResets >>

----------------------------------------------------------------------------
\* The fetch client floatAIAPI (part_002:1545-1616).  Decimal numbers are scaled to
\* integers: coordinates by 1000, temperature, salinity and profile values by 100.

SampleFloat(id, lat, lon, lastContact, status) ==
    [ id |-> id, lat |-> lat, lon |-> lon, last_contact |-> Str(lastContact),
      status |-> status ]

SAMPLE_FLOATS ==
    << SampleFloat("5905612", -33500, 151300, "2025-11-20T12:00:00Z", "active"),
       SampleFloat("5905613", -12100, 145200, "2025-11-15T09:00:00Z", "active"),
       SampleFloat("5905614", 2500, -150800, "2025-10-05T18:00:00Z", "delayed"),
       SampleFloat("3901774", 46500, -17800, "2025-11-10T04:00:00Z", "active"),
       SampleFloat("2902273", 14200, -38600, "2025-11-18T07:00:00Z", "active"),
       SampleFloat("3901621", -47800, 12400, "2025-09-29T10:00:00Z", "inactive") >>

SAMPLE_PROFILE ==
    [ depth |-> << 0, 200, 500, 1000 >>,
      values |-> << 2020, 1510, 830, 420 >>,
      quality_flags |-> << 1, 1, 1, 2 >> ]

\* built once when the module loads, from a fixed date: 12 weekly points
SAMPLE_TIME_SERIES ==
    [ data |-> [k \in 1..12 |->
                  [ week |-> k - 1, temperature |-> 1800 - (k - 1) * 30,
                    pressure |-> 1013 + (k - 1) * 2 ]],
      sqlQuery |-> "SELECT * FROM argo_profiles WHERE float_id = 'float_2903953'" ]

SAMPLE_QUALITY ==
    << [metric |-> "temperature_qc", value |-> 100],
       [metric |-> "salinity_qc", value |-> 100],
       [metric |-> "profile_completeness", value |-> 94] >>

\* fetchJson (api.ts:40-55): rejects unless the request succeeds with a 2xx status
\* and a JSON body
fetchJson(outcome) ==
    IF outcome.net = "ok" THEN [threw |-> FALSE, value |-> outcome.body]
    ELSE [threw |-> TRUE, value |-> outcome.net]

Returns(value) == [threw |-> FALSE, value |-> value]

\* new Date(t - days * 86400000).toISOString(): the instant, kept as the clock
\* reading and the whole days subtracted from it (the clock of the model stays
\* within one day, so distinct pairs are distinct instants)
ToISOString(t, days) == [ms |-> t, minusDays |-> days]

Min(a, b) == IF a < b THEN a ELSE b

TrajectoryFallbackLength == 10

\* the synthetic trajectory of the catch block (lines 1604-1613)
SyntheticTrajectory(limit, t) ==
    [k \in 1..(IF Min(limit, TrajectoryFallbackLength) > 0
               THEN Min(limit, TrajectoryFallbackLength) ELSE 0) |->
        [ lat |-> 40700 + (k - 1) * 20,
          lon |-> -74000 + (k - 1) * 15,
          timestamp |-> ToISOString(t, limit - (k - 1)),
          temperature |-> 1850 - (k - 1) * 10,
          salinity |-> 3520 - (k - 1) * 2,
          pressure |-> 1000 + (k - 1) * 5 ]]

getDatabaseStats(outcome) ==
    IF ~fetchJson(outcome).threw THEN Returns(fetchJson(outcome).value)
    ELSE Returns([ total_floats |-> Num(Len(SAMPLE_FLOATS)), last_updated |-> Null,
                   dataset |-> Str("Sample dataset") ])

getArgoFloats(outcome) ==
    IF ~fetchJson(outcome).threw
    THEN Returns([data |-> fetchJson(outcome).value, source |-> "live"])
    ELSE Returns([data |-> SAMPLE_FLOATS, source |-> "sample"])

\* getFloatProfile without its catch block
getFloatProfile_Rethrows(outcome) == fetchJson(outcome)

getFloatProfile(outcome) ==
    IF ~fetchJson(outcome).threw THEN Returns(fetchJson(outcome).value)
    ELSE Returns(SAMPLE_PROFILE)

\* a sample time series dated from the time of the call
getTimeSeriesData_FromNow(outcome) ==
    IF ~fetchJson(outcome).threw THEN Returns(fetchJson(outcome).value)
    ELSE Returns([ SAMPLE_TIME_SERIES EXCEPT
                     !.data = [k \in 1..12 |-> [SAMPLE_TIME_SERIES.data[k] EXCEPT !.week = now + k - 1]] ])

getTimeSeriesData(outcome) ==
    IF ~fetchJson(outcome).threw THEN Returns(fetchJson(outcome).value)
    ELSE Returns(SAMPLE_TIME_SERIES)

getDataQuality(outcome) ==
    IF ~fetchJson(outcome).threw THEN Returns(fetchJson(outcome).value)
    ELSE Returns(SAMPLE_QUALITY)

getFloatTrajectory(limit, outcome, t) ==
    IF ~fetchJson(outcome).threw THEN Returns(fetchJson(outcome).value)
    ELSE Returns(SyntheticTrajectory(limit, t))

\* the calls of the model: the method and, for the trajectory, its limit (60 in
\* InteractiveOceanMap.tsx:301, 50 by default, 3 below the fallback's length)
ApiCalls ==
    { [method |-> m, limit |-> 0] :
        m \in { "getDatabaseStats", "getArgoFloats", "getFloatProfile",
                "getTimeSeriesData", "getDataQuality" } }
    \cup { [method |-> "getFloatTrajectory", limit |-> l] : l \in { 3, 50, 60 } }

LiveBody(call) == [live |-> call.method]

ApiOutcomes(call) == NetFailures \cup { [net |-> "ok", body |-> LiveBody(call)] }

CallApi(call, outcome, t) ==
    CASE call.method = "getDatabaseStats" -> getDatabaseStats(outcome)
      [] call.method = "getArgoFloats" -> getArgoFloats(outcome)
      [] call.method = "getFloatProfile" -> getFloatProfile(outcome)
      [] call.method = "getTimeSeriesData" -> getTimeSeriesData(outcome)
      [] call.method = "getDataQuality" -> getDataQuality(outcome)
      [] OTHER -> getFloatTrajectory(call.limit, outcome, t)

\* a caller invokes a resource method and the request resolves
ApiCall(call, outcome) ==
    /\ Len(apiLog) < MaxApiCalls
    /\ apiLog' = Append(apiLog, [ call |-> call, net |-> outcome.net, at |-> now,
                                  result |-> CallApi(call, outcome, now) ])
    /\ ev' = Event("apiCall", Len(apiLog) + 1, outcome.net, "none", FALSE, {})
    /\ UNCHANGED viewVars
    /\ UNCHANGED << appVars, chatVars, asyncVars, now, nPrompts, nResets >>

\* a millisecond passes
Tick ==
    /\ now < MaxTicks
    /\ now' = now + 1
    /\ ev' = Event("tick", now + 1, "none", "none", FALSE, {})
    /\ UNCHANGED viewVars
    /\ UNCHANGED << appVars, chatVars, asyncVars, apiLog, nPrompts, nResets >>

----------------------------------------------------------------------------
\* loadFleetSnapshot (part_002:731-768): the fleet overview of the header

LiveStats == [total_floats |-> Num(7), last_updated |-> Str("2025-11-21T00:00:00Z")]
LiveFloats == << SampleFloat("6900001", 1000, 2000, "2025-11-21T06:00:00Z", "active") >>

FleetOutcomes(body) == { [net |-> "reject"], [net |-> "ok", body |-> body] }

CountActive(floats) == Cardinality({ k \in 1..Len(floats) : floats[k].status = "active" })

FleetOverviewOf(stats, floats) ==
    [ totalFloats |-> IF IsNum(stats.total_floats) THEN stats.total_floats
                      ELSE Num(Len(floats.data)),
      activeFloats |-> Num(CountActive(floats.data)),
      lastUpdated |-> IF ~IsNull(stats.last_updated) THEN stats.last_updated
                      ELSE IF Len(floats.data) # 0 THEN floats.data[1].last_contact
                      ELSE Null ]

\* a snapshot that reports the backend operational again when the catalog is live
LoadFleetSnapshotDone_Recovers(statsOutcome, floatsOutcome) ==
    /\ fleetPending
    /\ fleetPending' = FALSE
    /\ fleetOverview' = FleetOverviewOf(getDatabaseStats(statsOutcome).value,
                                        getArgoFloats(floatsOutcome).value)
    /\ backendStatus' = IF floatsOutcome.net = "ok" THEN "operational" ELSE backendStatus
    /\ ev' = Event("fleetSnapshot", 0, floatsOutcome.net, "none", FALSE, {})
    /\ UNCHANGED viewVars
    /\ UNCHANGED << appData, dataSynopsis, isLoading, backendStatusDetail,
                    chatInstanceKey, activeTab, mode, complexityScore, recentQueries,
                    expertFilters, welcomeCache, chatVars, loads, chatReqs, apiVars,
                    nPrompts, nResets >>

\* both requests of the snapshot have resolved
LoadFleetSnapshotDone(statsOutcome, floatsOutcome) ==
    /\ fleetPending
    /\ fleetPending' = FALSE
    /\ fleetOverview' = FleetOverviewOf(getDatabaseStats(statsOutcome).value,
                                        getArgoFloats(floatsOutcome).value)
    /\ ev' = Event("fleetSnapshot", 0, floatsOutcome.net, "none", FALSE, {})
    /\ UNCHANGED viewVars
    /\ UNCHANGED << appData, dataSynopsis, isLoading, backendStatus, backendStatusDetail,
                    chatInstanceKey, activeTab, mode, complexityScore, recentQueries,
                    expertFilters, welcomeCache, chatVars, loads, chatReqs, apiVars,
                    nPrompts, nResets >>

----------------------------------------------------------------------------
\* InteractiveOceanMap (frontend/src/components/InteractiveOceanMap.tsx).  The
\* variable selector is left at "temperature", so ensureSeriesForVariable returns
\* at its guards (lines 333-334) whenever the detail state carries a series.

\* clicks on a float in one run of SpecMap
MaxSelects == 1

\* the limit loadFloatDetails passes to getFloatTrajectory (line 301)
TrajectoryLimit == 60

\* the ids of the catalog on the map
MapFloats == << SAMPLE_FLOATS[1].id, SAMPLE_FLOATS[2].id >>

\* a detail load that issues all its fetches in one Promise.all
FirstFetches_AllFour ==
    { "getFloatTrajectory", "getDataQuality", "getFloatProfile", "getTimeSeriesData" }

\* the fetches of the first Promise.all of loadFloatDetails (lines 300-303)
FirstFetches == { "getFloatTrajectory", "getDataQuality" }

\* the fetches of the second Promise.all (lines 305-308)
SecondFetches == { "getFloatProfile", "getTimeSeriesData" }

DetailFetches == { "getFloatTrajectory", "getDataQuality", "getFloatProfile", "getTimeSeriesData" }

DetailCall(method) ==
    [method |-> method, limit |-> IF method = "getFloatTrajectory" THEN TrajectoryLimit ELSE 0]

\* what a detail fetch may meet: the request fails, or the backend answers
DetailOutcomes(method) ==
    { [net |-> "reject"], [net |-> "ok", body |-> LiveBody(DetailCall(method))] }

\* a call of loadFloatDetails up to its first await (lines 297-303): the fetches
\* outstanding, and what each fetch that resolved returned
NewDetailRun(floatId, variableToLoad) ==
    [ floatId |-> floatId, variable |-> variableToLoad, pending |-> FirstFetches,
      got |-> [m \in DetailFetches |-> NoResponse],
      nets |-> [m \in DetailFetches |-> "none"] ]

\* the detail state of lines 310-315
DetailState(run) ==
    [ trajectory |-> run.got["getFloatTrajectory"].value,
      quality |-> run.got["getDataQuality"].value,
      profile |-> run.got["getFloatProfile"].value,
      timeSeries |-> [v \in { run.variable } |-> run.got["getTimeSeriesData"].value] ]

\* the detail state of the catch block (lines 318-323)
EmptyDetailState ==
    [ trajectory |-> << >>, quality |-> << >>, profile |-> Null,
      timeSeries |-> [v \in {} |-> Null] ]

WithoutRun(runs, k) == [j \in 1..(Len(runs) - 1) |-> IF j < k THEN runs[j] ELSE runs[j + 1]]

\* a fetch of a detail load resolves.  When it was the last of its Promise.all the
\* load resumes: it issues the second pair, or sets the combined detail state; a
\* rejected fetch rejects the Promise.all and the catch block runs.
DetailFetchResolves(k, method, outcome) ==
    /\ k \in DOMAIN detailRuns
    /\ method \in detailRuns[k].pending
    /\ LET run == detailRuns[k]
           result == CallApi(DetailCall(method), outcome, now)
           run1 == [run EXCEPT !.pending = @ \ { method },
                               !.got[method] = result,
                               !.nets[method] = outcome.net]
       IN IF result.threw
          THEN /\ details' = EmptyDetailState
               /\ detailsLoading' = FALSE
               /\ detailRuns' = WithoutRun(detailRuns, k)
               /\ ev' = [Event("detailsFailed", k, outcome.net, "none", FALSE, {})
                           EXCEPT !.response = run1]
          ELSE IF run1.pending # {}
          THEN /\ detailRuns' = [detailRuns EXCEPT ![k] = run1]
               /\ ev' = Event("detailFetch", k, outcome.net, "none", FALSE, {})
               /\ UNCHANGED << details, detailsLoading >>
          ELSE IF \E m \in SecondFetches : run1.got[m] = NoResponse
          THEN /\ detailRuns' = [detailRuns EXCEPT ![k] = [run1 EXCEPT !.pending = SecondFetches]]
               /\ ev' = Event("detailFetch", k, outcome.net, "none", FALSE, {})
               /\ UNCHANGED << details, detailsLoading >>
          ELSE /\ details' = DetailState(run1)
               /\ detailsLoading' = FALSE
               /\ detailRuns' = WithoutRun(detailRuns, k)
               /\ ev' = [Event("detailsLoaded", k, outcome.net, "none", FALSE, {})
                           EXCEPT !.response = run1]
    /\ UNCHANGED << appVars, chatVars, asyncVars, apiVars, callVars, selectedFloatId,
                    variable, nPrompts, nResets, nSelects >>

\* the effect of lines 369-377 once the catalog is there: with no float selected it
\* selects the first, and the effect of lines 355-362 loads its details
AutoSelect ==
    /\ IsNull(selectedFloatId)
    /\ Len(MapFloats) # 0
    /\ selectedFloatId' = Str(MapFloats[1])
    /\ detailsLoading' = TRUE
    /\ detailRuns' = Append(detailRuns, NewDetailRun(MapFloats[1], variable))
    /\ ev' = Event("autoSelect", 0, "none", "none", FALSE, { "loadFloatDetails" })
    /\ UNCHANGED << appVars, chatVars, asyncVars, apiVars, callVars, variable, details,
                    nPrompts, nResets, nSelects >>

\* handleSelectFloat (lines 379-386): it loads the details itself, and when the
\* selection changed the effect of lines 355-362 loads them once more
HandleSelectFloat(id) ==
    /\ nSelects < MaxSelects
    /\ selectedFloatId' = Str(id)
    /\ variable' = "temperature"
    /\ detailsLoading' = TRUE
    /\ detailRuns' =
          detailRuns \o << NewDetailRun(id, "temperature") >>
          \o (IF selectedFloatId # Str(id) \/ variable # "temperature"
              THEN << NewDetailRun(id, "temperature") >> ELSE << >>)
    /\ nSelects' = nSelects + 1
    /\ ev' = Event("selectFloat", nSelects + 1, "none", "none", FALSE, { "loadFloatDetails" })
    /\ UNCHANGED << appVars, chatVars, asyncVars, apiVars, callVars, details,
                    nPrompts, nResets >>

----------------------------------------------------------------------------
\* DataVisualization (src/unnamed/part_000)

\* String(value) for the values of the model
StringOf(v) ==
    CASE IsNull(v) -> "undefined"
      [] IsStr(v) -> v.str
      [] IsNum(v) -> NumToString(v.num)
      [] OTHER -> "[object]"

\* the row test of the depth filter (lines 157-163)
DepthInRange(row, minDepth, maxDepth) ==
    LET depth == Get(row, "pressure")
    IN IF ~IsNum(depth) THEN FALSE
       ELSE IF ~IsNull(minDepth) /\ depth.num < minDepth.num THEN FALSE
       ELSE IF ~IsNull(maxDepth) /\ depth.num > maxDepth.num THEN FALSE
       ELSE TRUE

\* the condition of line 155
DepthFilterApplies(filters) ==
    Truthy(filters.depthRange) /\ ~IsNull(filters.depthRange.arr[1])

\* filteredData (lines 144-167)
filteredData(data, filters, m) ==
    IF m # "expert" THEN data
    ELSE LET SameFloat(row) == StringOf(Get(row, "float_id")) = filters.floatId.str
             InRange(row) == DepthInRange(row, filters.depthRange.arr[1],
                                          filters.depthRange.arr[2])
             byFloat == IF Truthy(filters.floatId) THEN SelectSeq(data, SameFloat) ELSE data
         IN IF DepthFilterApplies(filters) THEN SelectSeq(byFloat, InRange) ELSE byFloat

\* rows with a numeric float_id, with a pressure that is no number, with none
RowC == << << "float_id", Num(7) >>, << "pressure", Num(700) >> >>
RowD == << << "float_id", Str("5905612") >>, << "pressure", Str("deep") >> >>
RowE == << << "float_id", Str("5905613") >> >>

\* the result sets the filter is applied to
FilterDataSets ==
    { << >>, DataOne, DataTwo, << RowB, RowA >>, << RowA, RowB, RowC >>,
      << RowC, RowD, RowE, RowA >> }

\* the filters: an entity filter unset, empty, matching or matching nothing; a depth
\* range unset or with each bound null or a number, swapped bounds included
FilterFloatIds == { Null, Str(""), Str("5905612"), Str("7"), Str("0000000") }
DepthBounds == { Null, Num(10), Num(200), Num(500) }
FilterSettings ==
    { [focusMetric |-> "temperature", floatId |-> f, depthRange |-> d] :
        f \in FilterFloatIds,
        d \in { Null } \cup { Arr(<< lo, hi >>) : lo \in DepthBounds, hi \in DepthBounds } }

\* DataVisualization renders: the memo of lines 144-167 is computed
ApplyFilteredData ==
    /\ callArgs # NoCall
    /\ callResult = NoCall
    /\ callResult' = [value |-> filteredData(callArgs.data, callArgs.filters, callArgs.mode)]
    /\ ev' = Event("filteredData", 0, "none", "none", FALSE, {})
    /\ UNCHANGED << appVars, chatVars, asyncVars, apiVars, mapVars, callArgs,
                    nPrompts, nResets >>

----------------------------------------------------------------------------
\* The persona mode and the expert filters (part_002:880-951, part_000:244-311)

\* a pipeline that filters the result set in place
SourceAfterFiltering_InPlace(data, filters, m) == filteredData(data, filters, m)

\* the result set after filteredData ran on it: the pipeline returns data itself or
\* filters a copy of it ([...data], Array.prototype.filter), so data is as it was
SourceAfterFiltering(data, filters, m) == data

\* DataVisualization renders again with the filters and the mode of the next state
Rerender ==
    appData' = [appData EXCEPT
                  !.data = SourceAfterFiltering(appData.data, expertFilters', mode')]

\* depthBounds (part_000:244-253): the extremes of the numeric pressures, or null
Depths(data) ==
    { Get(data[i], "pressure").num : i \in { j \in 1..Len(data) : IsNum(Get(data[j], "pressure")) } }

depthBounds(data) ==
    IF Depths(data) = {} THEN Null
    ELSE [ min |-> CHOOSE d \in Depths(data) : \A e \in Depths(data) : d <= e,
           max |-> CHOOSE d \in Depths(data) : \A e \in Depths(data) : d >= e ]

\* floatOptions (part_000:234-242)
floatOptions(data) ==
    { StringOf(Get(data[i], "float_id")) :
        i \in { j \in 1..Len(data) : ~IsNull(Get(data[j], "float_id")) } }

\* the expert controls are rendered in expert mode once the page has loaded
ExpertControlsShown == mode = "expert" /\ ~isLoading

\* updateFilters (part_000:300-302) with the partial of each control
\* handleDepthChange (lines 304-307) and the Reset of the depth window (line 462):
\* the slider reports two values within the bounds, the lower first
HandleDepthChange(lo, hi) ==
    /\ ExpertControlsShown
    /\ ~IsNull(depthBounds(appData.data))
    /\ { lo, hi } \subseteq { depthBounds(appData.data).min, depthBounds(appData.data).max }
    /\ lo <= hi
    /\ expertFilters' = [expertFilters EXCEPT !.depthRange = Arr(<< Num(lo), Num(hi) >>)]
    /\ mode' = mode
    /\ Rerender
    /\ ev' = Event("depthChange", 0, "none", "none", FALSE, { "onFiltersChange" })
    /\ UNCHANGED << dataSynopsis, isLoading, backendStatus, backendStatusDetail,
                    chatInstanceKey, activeTab, complexityScore, recentQueries,
                    fleetOverview, welcomeCache, chatVars, asyncVars, apiVars, viewVars,
                    nPrompts, nResets >>

\* handleFloatChange (lines 309-311)
HandleFloatChange(value) ==
    /\ ExpertControlsShown
    /\ value \in { "all" } \cup floatOptions(appData.data)
    /\ expertFilters' = [expertFilters EXCEPT
                           !.floatId = IF value = "all" THEN Null ELSE Str(value)]
    /\ mode' = mode
    /\ Rerender
    /\ ev' = Event("floatChange", 0, "none", "none", FALSE, { "onFiltersChange" })
    /\ UNCHANGED << dataSynopsis, isLoading, backendStatus, backendStatusDetail,
                    chatInstanceKey, activeTab, complexityScore, recentQueries,
                    fleetOverview, welcomeCache, chatVars, asyncVars, apiVars, viewVars,
                    nPrompts, nResets >>

FocusMetrics == { "temperature", "salinity" }

\* the focus metric select (line 503)
FocusMetricChange(metric) ==
    /\ ExpertControlsShown
    /\ expertFilters' = [expertFilters EXCEPT !.focusMetric = metric]
    /\ mode' = mode
    /\ Rerender
    /\ ev' = Event("focusChange", 0, "none", "none", FALSE, { "onFiltersChange" })
    /\ UNCHANGED << dataSynopsis, isLoading, backendStatus, backendStatusDetail,
                    chatInstanceKey, activeTab, complexityScore, recentQueries,
                    fleetOverview, welcomeCache, chatVars, asyncVars, apiVars, viewVars,
                    nPrompts, nResets >>

\* a switch to guided mode that keeps the complexity score
ScoreAfterModeChange_Kept(score, nextMode) == score

\* the complexity score after handleModeChange (part_002:880-889)
ScoreAfterModeChange(score, nextMode) == IF nextMode = "guided" THEN 0 ELSE score

\* handleModeChange (part_002:880-889)
HandleModeChange(nextMode) ==
    /\ mode' = nextMode
    /\ complexityScore' = ScoreAfterModeChange(complexityScore, nextMode)
    /\ expertFilters' = IF nextMode = "guided" THEN DefaultFilters ELSE expertFilters
    /\ Rerender
    /\ ev' = Event("modeChange", 0, "none", "none", FALSE, {})
    /\ UNCHANGED << dataSynopsis, isLoading, backendStatus, backendStatusDetail,
                    chatInstanceKey, activeTab, recentQueries, fleetOverview,
                    welcomeCache, chatVars, asyncVars, apiVars, viewVars, nPrompts, nResets >>

\* the actions of the command palette that change the state of the model;
\* "prefill-query" sets the palette prefill, which the model leaves out
CommandActions ==
    { "switch-guided", "switch-expert", "open-analysis", "open-map", "focus-salinity",
      "focus-temperature", "clear-filters" }

\* the tab a command opens, the metric a command focuses
TabOf(action) == IF action = "open-map" THEN "map" ELSE "analysis"
MetricOf(payload) == IF Truthy(payload) THEN payload.str ELSE "temperature"

\* handleCommandAction (part_002:908-951); payload is the command's payload or null
HandleCommandAction(action, payload) ==
    /\ action \in CommandActions
    /\ mode' = CASE action = "switch-guided" -> "guided"
                 [] action = "switch-expert" -> "expert"
                 [] OTHER -> mode
    /\ complexityScore' = IF action = "switch-guided"
                          THEN ScoreAfterModeChange(complexityScore, "guided")
                          ELSE complexityScore
    /\ expertFilters' =
          CASE action \in { "switch-guided", "clear-filters" } -> DefaultFilters
            [] action \in { "focus-salinity", "focus-temperature" } ->
                 [expertFilters EXCEPT !.focusMetric = MetricOf(payload)]
            [] OTHER -> expertFilters
    /\ activeTab' = IF action \in { "open-analysis", "open-map" } THEN TabOf(action)
                    ELSE activeTab
    /\ Rerender
    /\ ev' = [Event("command", 0, "none", "none", FALSE, {}) EXCEPT !.response = Str(action)]
    /\ UNCHANGED << dataSynopsis, isLoading, backendStatus, backendStatusDetail,
                    chatInstanceKey, recentQueries, fleetOverview, welcomeCache,
                    chatVars, asyncVars, apiVars, viewVars, nPrompts, nResets >>

\* prompts of every complexity class: deltas -1, 3, 1 and 2
ScoredPrompts ==
    Prompts \cup
    { Prompt("floats where pressure >= 500", FALSE, FALSE, TRUE, FALSE, FALSE, FALSE),
      Prompt("cluster the floats", TRUE, FALSE, FALSE, FALSE, FALSE, FALSE) }

----------------------------------------------------------------------------
\* The normalizer applied on its own (ChatInterface.tsx:148-199, 395-422)

\* a structured message of the backend
BackendMessage(role, content, type) == [role |-> role, content |-> content, type |-> type]

\* responses with and without an error, a string or array result, structured messages
NormalizePayloads ==
    { [ error |-> e, result_data |-> r, sql_query |-> Str("SELECT 1"), messages |-> m ] :
        e \in { Null, Str(""), Str("boom") },
        r \in { Null, Str(" narrative "), Str("   "), Arr(DataOne), Arr(<< >>) },
        m \in { Null, Arr(<< >>),
                Arr(<< BackendMessage("assistant", Str("Here are the floats"), Null) >>) } }

\* fallback texts a caller could pass, blank ones included
FallbackTexts == { Str(""), Str("   "), Str(" 5905612 ") }

\* sendPrompt normalizes a response (line 422), or the normalizer is called with
\* a fallback text of its caller's choosing
ApplyNormalize ==
    /\ callArgs # NoCall
    /\ callResult = NoCall
    /\ callResult' = [value |-> normalizeAssistantMessages(callArgs.payload, callArgs.fallbackText)]
    /\ ev' = Event("normalize", 0, "none", "none", FALSE, {})
    /\ UNCHANGED << appVars, chatVars, asyncVars, apiVars, mapVars, callArgs,
                    nPrompts, nResets >>

----------------------------------------------------------------------------
\* createDataSynopsis applied on its own (part_002:507-601)

\* rows in one result set of SpecSynopsis
MaxRows == 3

\* rows identified by float when float_id is null, by a numeric id alone, and
\* with a blank float_id beside an id
RowF == << << "float_id", Null >>, << "float", Str(" 5905612 ") >> >>
RowG == << << "id", Num(10) >>, << "pressure", Num(10) >> >>
RowH == << << "float_id", Str("   ") >>, << "id", Str("5905613") >> >>

\* the rows of the model: with and without a pressure, with a numeric identifier
SynopsisRows == { RowA, RowB, RowC, RowD, RowE, RowF, RowG, RowH }

\* result sets of up to MaxRows rows
SynopsisDataSets == UNION { [1..n -> SynopsisRows] : n \in 0..MaxRows }

\* the result sets with the rows of data in any order
Reorderings(data) ==
    { [i \in 1..Len(data) |-> data[f[i]]] :
        f \in { g \in [1..Len(data) -> 1..Len(data)] :
                  \A i, j \in 1..Len(data) : g[i] = g[j] => i = j } }

\* the signature of a synopsis, null for the empty result set
SignatureOf(synopsis) == IF IsNull(synopsis) THEN Null ELSE synopsis.signature

\* the synopsis of a result set and of a reordering of it are computed; floatIds
\* is the constant of lines 511-529
ApplyCreateDataSynopsis ==
    /\ callArgs # NoCall
    /\ callResult = NoCall
    /\ callResult' = [ first |-> createDataSynopsis(callArgs.data),
                       second |-> createDataSynopsis(callArgs.reordered),
                       floatIds |-> SynopsisFloatIds(callArgs.data) ]
    /\ ev' = Event("createDataSynopsis", 0, "none", "none", FALSE, {})
    /\ UNCHANGED << appVars, chatVars, asyncVars, apiVars, mapVars, callArgs,
                    nPrompts, nResets >>

----------------------------------------------------------------------------
\* computeStats (part_000:76-90).  The values are integers; a quotient is kept as
\* the pair of its numerator and denominator, the median as twice its value.

\* values in one call of computeStats in SpecStats
MaxValues == 4

\* [...values].sort((a, b) => a - b): insertion into a sorted copy
RECURSIVE SortNumbers(_)
SortNumbers(values) ==
    IF values = << >> THEN << >>
    ELSE LET rest == SortNumbers(SubSeq(values, 1, Len(values) - 1))
             last == values[Len(values)]
             below == SelectSeq(rest, LAMBDA v : v <= last)
             above == SelectSeq(rest, LAMBDA v : v > last)
         IN below \o << last >> \o above

RECURSIVE SumOf(_)
SumOf(values) ==
    IF values = << >> THEN 0 ELSE values[1] + SumOf(SubSeq(values, 2, Len(values)))

Squares(values) == [i \in 1..Len(values) |-> values[i] * values[i]]

Halves(k) == [twice |-> k]

\* a computeStats that sorts the array it is given
ValuesAfterComputeStats_SortedInPlace(values) == SortNumbers(values)

\* the array passed to computeStats after the call: the sort works on a copy
\* (line 78), reduce reads only
ValuesAfterComputeStats(values) == values

computeStats(values) ==
    IF Len(values) = 0 THEN Null
    ELSE LET sorted == SortNumbers(values)
             n == Len(sorted)
             sum == SumOf(values)
         IN [ mean |-> << sum, Len(values) >>,
              median |-> IF n % 2 = 0
                         THEN Halves(sorted[n \div 2] + sorted[n \div 2 + 1])
                         ELSE Halves(2 * sorted[(n - 1) \div 2 + 1]),
              min |-> sorted[1],
              max |-> sorted[n],
              variance |-> << Len(values) * SumOf(Squares(values)) - sum * sum,
                              Len(values) * Len(values) >>,
              count |-> Len(values) ]

\* the values of the model: negative, zero, repeated in a sequence, far apart
StatValues == { -5, 0, 3, 7, 200 }

\* DataVisualization computes the statistics of the focus metric (line 277)
ApplyComputeStats ==
    /\ callArgs # NoCall
    /\ callResult = NoCall
    /\ callResult' = [ value |-> computeStats(callArgs.values),
                       values |-> ValuesAfterComputeStats(callArgs.values) ]
    /\ ev' = Event("computeStats", 0, "none", "none", FALSE, {})
    /\ UNCHANGED << appVars, chatVars, asyncVars, apiVars, mapVars, callArgs,
                    nPrompts, nResets >>

----------------------------------------------------------------------------
\* The two copies of the fetch client: the one of the application (part_002:1545-1616)
\* and the one under frontend/ (frontend/src/services/api.ts), which the map
\* component beside it imports.  The coordinates of the second copy have four
\* decimals and are rounded to three.

\* SAMPLE_FLOATS of frontend/src/services/api.ts (lines 135-178)
FrontendSampleFloats ==
    << SampleFloat("float_2903953", 40713, -74006, "2024-01-15T00:00:00Z", "active"),
       SampleFloat("float_4903838", 35676, 139650, "2024-01-14T00:00:00Z", "active"),
       SampleFloat("float_7901125", -33925, 18424, "2024-01-13T00:00:00Z", "delayed") >>

\* getDatabaseStats of frontend/src/services/api.ts (lines 264-275)
FrontendGetDatabaseStats(outcome) ==
    IF ~fetchJson(outcome).threw THEN Returns(fetchJson(outcome).value)
    ELSE Returns([ total_floats |-> Num(Len(FrontendSampleFloats)), last_updated |-> Null,
                   dataset |-> Str("Sample dataset") ])

\* getArgoFloats of frontend/src/services/api.ts (lines 276-285): the bare array
FrontendGetArgoFloats(outcome) ==
    IF ~fetchJson(outcome).threw THEN Returns(fetchJson(outcome).value)
    ELSE Returns(FrontendSampleFloats)

Clients == { "app", "frontend" }

\* the methods the sample fleet and the sample profile come from
CatalogCalls ==
    { [method |-> m, limit |-> 0] :
        m \in { "getDatabaseStats", "getArgoFloats", "getFloatProfile" } }

\* a method of one of the two clients; getFloatProfile is the same in both
CallClient(client, call, outcome, t) ==
    IF client = "frontend" /\ call.method = "getDatabaseStats"
    THEN FrontendGetDatabaseStats(outcome)
    ELSE IF client = "frontend" /\ call.method = "getArgoFloats"
    THEN FrontendGetArgoFloats(outcome)
    ELSE CallApi(call, outcome, t)

\* the catalog in the value getArgoFloats resolved to
CatalogOf(client, value) == IF client = "frontend" THEN value ELSE value.data

\* a component calls a method of the client it imports and the request resolves
ClientCall(client, call, outcome) ==
    /\ Len(apiLog) < MaxApiCalls
    /\ apiLog' = Append(apiLog, [ client |-> client, call |-> call, net |-> outcome.net,
                                  at |-> now,
                                  result |-> CallClient(client, call, outcome, now) ])
    /\ ev' = Event("clientCall", Len(apiLog) + 1, outcome.net, "none", FALSE, {})
    /\ UNCHANGED viewVars
    /\ UNCHANGED << appVars, chatVars, asyncVars, now, nPrompts, nResets >>

----------------------------------------------------------------------------
\* The complexity heuristic applied on its own (ChatInterface.tsx:111-136)

\* queries matching every combination of the six patterns of evaluateComplexity
ComplexityPrompts ==
    { Prompt("query", a, b, c, d, e, f) :
        a \in BOOLEAN, b \in BOOLEAN, c \in BOOLEAN, d \in BOOLEAN, e \in BOOLEAN,
        f \in BOOLEAN }

\* sendPrompt scores the prompt (lines 372-373)
ApplyClassifyComplexity ==
    /\ callArgs # NoCall
    /\ callResult = NoCall
    /\ callResult' = [ score |-> evaluateComplexity(callArgs.query),
                       delta |-> classifyComplexity(evaluateComplexity(callArgs.query)) ]
    /\ ev' = Event("classifyComplexity", 0, "none", "none", FALSE, {})
    /\ UNCHANGED << appVars, chatVars, asyncVars, apiVars, mapVars, callArgs,
                    nPrompts, nResets >>

----------------------------------------------------------------------------
\* The composer of the chat: what the user may submit

\* the prompts of the model and a prompt of blanks only
SubmittedPrompts ==
    Prompts \cup { Prompt("   ", FALSE, FALSE, FALSE, FALSE, FALSE, FALSE) }

----------------------------------------------------------------------------
\* Responses of every shape (api.ts:65-71): with structured messages of assistant
\* and other roles, an array or string result, an error, or none of these

StructuredMessages ==
    { Null,
      Arr(<< BackendMessage("assistant", Str("Here are the floats"), Null) >>),
      Arr(<< BackendMessage("system", Str("routing: data"), Null) >>),
      Arr(<< BackendMessage("system", Str("routing: data"), Null),
             BackendMessage("assistant", [text |-> Str("   ")], Str("insight")) >>),
      Arr(<< Null >>) }

ShapedPayloads ==
    { [ error |-> e, result_data |-> r, sql_query |-> Str("SELECT 1"), messages |-> m ] :
        e \in { Null, Str("boom") },
        r \in { Null, Str(" narrative "), Arr(DataOne), Arr(<< >>) },
        m \in StructuredMessages }

\* a request fails, or is answered with a response or with the JSON null
ShapedOutcomes ==
    { [net |-> "reject"] } \cup { [net |-> "ok", body |-> p] : p \in ShapedPayloads \cup { Null } }

----------------------------------------------------------------------------
\* A result set without a numeric pressure after one with pressures

\* rows whose pressure is a string or missing
DataWithoutDepth == << RowD, RowE >>

----------------------------------------------------------------------------
\* The specifications

\* what localStorage may hold under the key when the page loads
InitialCaches ==
    { NoItem, GarbageItem, WrongShapeItem,
      SnapshotItem([data |-> DataOne, sqlQuery |-> "SELECT 1"]) }

\* the components after they have mounted: the welcome load and the fleet snapshot
\* started
Mounted ==
    /\ appData = [data |-> << >>, sqlQuery |-> ""]
    /\ dataSynopsis = Null
    /\ isLoading = TRUE
    /\ backendStatus = "operational"
    /\ backendStatusDetail = Str("Requesting welcome telemetry...")
    /\ chatInstanceKey = 0
    /\ activeTab = "analysis"
    /\ mode = "guided"
    /\ complexityScore = 0
    /\ recentQueries = << >>
    /\ expertFilters = DefaultFilters
    /\ fleetOverview = Null
    /\ welcomeCache \in InitialCaches
    /\ messages = << WelcomeMessage >>
    /\ chatIsLoading = FALSE
    /\ sessionIdRef = [k \in 0..MaxHardResets |-> 0]
    /\ summarySignatureRef = Null
    /\ loads = << NewLoad >>
    /\ chatReqs = {}
    /\ fleetPending = TRUE
    /\ now = 0
    /\ apiLog = << >>
    /\ ev = Event("init", 0, "none", "none", FALSE, {})
    /\ nPrompts = 0
    /\ nResets = 0
    /\ selectedFloatId = Null
    /\ variable = "temperature"
    /\ details = Null
    /\ detailsLoading = FALSE
    /\ detailRuns = << >>
    /\ nSelects = 0

\* the state after App has mounted
Init ==
    /\ Mounted
    /\ callArgs = NoCall
    /\ callResult = NoCall

\* the outcomes of a welcome request while the page is in use: the welcome load
\* tells apart a failed request, a valid response with rows or without, and any
\* other response
CoreOutcomes ==
    { [net |-> "reject"] } \cup
    { [net |-> "ok", body |-> p] :
        p \in { Payload(Null, Arr(DataOne), Str("SELECT 1")),
                Payload(Null, Arr(<< >>), Str("SELECT 1")),
                Payload(Str("boom"), Null, Null) } }

\* the page in use: at most MaxGestures user gestures in one run; the two requests
\* of the fleet snapshot go to the same backend together and are both answered or
\* both fail
Next ==
    \/ \E i \in DOMAIN loads, o \in CoreOutcomes, st \in StorageOutcomes :
          WelcomeResponse(i, o, st)
    \/ \E i \in DOMAIN loads : BackoffElapsed(i)
    \/ \E q \in Prompts :
          nPrompts < MaxPagePrompts /\ Gestures < MaxGestures /\ SendPrompt(q)
    \/ \E r \in chatReqs, o \in NetOutcomes : ChatResponse(r, o)
    \/ Gestures < MaxGestures /\ ClickReset
    \/ Gestures < MaxGestures /\ HandleChatHardReset
    \/ \E so \in FleetOutcomes(LiveStats), fo \in FleetOutcomes(LiveFloats) :
          so.net = fo.net /\ LoadFleetSnapshotDone(so, fo)

\* a page load with no cached snapshot or with a valid one
InitChat == Init /\ welcomeCache \in { NoItem, SnapshotItem([data |-> DataOne, sqlQuery |-> "SELECT 1"]) }

Spec == InitChat /\ [][Next]_vars

\* the welcome load alone: the page load and the loads that error-boundary resets start
NextWelcome ==
    \/ \E i \in DOMAIN loads, o \in NetOutcomes, st \in StorageOutcomes :
          WelcomeResponse(i, o, st)
    \/ \E i \in DOMAIN loads : BackoffElapsed(i)
    \/ HandleChatHardReset

SpecWelcome == Init /\ [][NextWelcome]_vars

\* the welcome load when every backoff timer fires and every request to the AI
\* endpoint resolves or fails in the end: no load awaits a response forever.  Every
\* step of WelcomeResponse(i, ...) leaves "await", so the second condition is weak
\* fairness of the responses of load i.
SpecWelcomeFair ==
    /\ Init
    /\ [][NextWelcome]_vars
    /\ \A i \in 1..(MaxHardResets + 1) :
          /\ WF_vars(BackoffElapsed(i))
          /\ []<>(i \notin DOMAIN loads \/ loads[i].pc # "await")

\* the handlers of the mounted chat invoked in any order, Reset also while a request
\* is outstanding; the welcome load of the page stays pending or succeeds at its
\* first attempt
NextHandlers ==
    \/ \E i \in DOMAIN loads :
          WelcomeResponse(i, [net |-> "ok",
                              body |-> Payload(Null, Arr(DataOne), Str("SELECT 1"))], "ok")
    \/ \E q \in Prompts : nPrompts < MaxPrompts /\ SendPrompt(q)
    \/ \E r \in chatReqs, o \in NetOutcomes : ChatResponse(r, o)
    \/ HandleResetConversation

SpecHandlers == InitChat /\ [][NextHandlers]_vars

\* the fetch client alone: calls of its resource methods as the clock advances
NextApi ==
    \/ \E c \in ApiCalls : \E o \in ApiOutcomes(c) : ApiCall(c, o)
    \/ Tick

\* the fetch client does not touch the welcome cache: one page load stands for all
InitApi == Init /\ welcomeCache = NoItem

SpecApi == InitApi /\ [][NextApi]_vars

\* the map alone: the catalog is loaded, floats are selected, detail fetches resolve
NextMap ==
    \/ AutoSelect
    \/ \E k \in 1..Len(MapFloats) : HandleSelectFloat(MapFloats[k])
    \/ \E k \in DOMAIN detailRuns, m \in DetailFetches :
          \E o \in DetailOutcomes(m) : DetailFetchResolves(k, m, o)

SpecMap == InitApi /\ [][NextMap]_vars


\* filteredData alone, on every result set, filter setting and mode of the model
InitFilter ==
    /\ Mounted
    /\ welcomeCache = NoItem
    /\ callArgs \in [ data : FilterDataSets, filters : FilterSettings,
                      mode : { "guided", "expert" } ]
    /\ callResult = NoCall

SpecFilter == InitFilter /\ [][ApplyFilteredData]_vars


\* the expert filters in use: the welcome load brings two rows, a prompt brings
\* one, the user switches modes, sets and clears filters and runs commands of the
\* palette
NextExpert ==
    \/ \E i \in DOMAIN loads :
          WelcomeResponse(i, [net |-> "ok",
                              body |-> Payload(Null, Arr(DataTwo), Str("SELECT 1"))], "ok")
    \/ \E q \in Prompts : nPrompts < MaxPagePrompts /\ SendPrompt(q)
    \/ \E r \in chatReqs :
          ChatResponse(r, [net |-> "ok",
                           body |-> Payload(Null, Arr(DataOne), Str("SELECT 1"))])
    \/ \E m \in { "guided", "expert" } : HandleModeChange(m)
    \/ \E a \in CommandActions, p \in { Null, Str("salinity") } : HandleCommandAction(a, p)
    \/ \E lo \in Depths(appData.data), hi \in Depths(appData.data) : HandleDepthChange(lo, hi)
    \/ \E v \in { "all" } \cup floatOptions(appData.data) : HandleFloatChange(v)
    \/ \E f \in FocusMetrics : FocusMetricChange(f)

SpecExpert == InitApi /\ [][NextExpert]_vars

\* the persona: prompts of every complexity class are scored, the user switches
\* modes by the buttons and by the palette, the error boundary resets the interface
NextPersona ==
    \/ \E i \in DOMAIN loads :
          WelcomeResponse(i, [net |-> "ok",
                              body |-> Payload(Null, Arr(DataOne), Str("SELECT 1"))], "ok")
    \/ \E q \in ScoredPrompts : nPrompts < MaxPrompts /\ SendPrompt(q)
    \/ \E r \in chatReqs :
          ChatResponse(r, [net |-> "ok",
                           body |-> Payload(Null, Arr(DataOne), Str("SELECT 1"))])
    \/ \E m \in { "guided", "expert" } : HandleModeChange(m)
    \/ \E a \in { "switch-guided", "switch-expert" } : HandleCommandAction(a, Null)
    \/ HandleChatHardReset

SpecPersona == InitApi /\ [][NextPersona]_vars


\* the normalizer alone: every response of the model, with the fallback text of
\* sendPrompt or another one
InitNormalize ==
    /\ Mounted
    /\ welcomeCache = NoItem
    /\ \E p \in NormalizePayloads :
          \E f \in FallbackTexts \cup { fallbackContent(p) } :
             callArgs = [payload |-> p, fallbackText |-> f]
    /\ callResult = NoCall

SpecNormalize == InitNormalize /\ [][ApplyNormalize]_vars


\* createDataSynopsis alone: every result set of the model and each of its
\* reorderings
InitSynopsis ==
    /\ Mounted
    /\ welcomeCache = NoItem
    /\ \E d \in SynopsisDataSets :
          \E r \in Reorderings(d) : callArgs = [data |-> d, reordered |-> r]
    /\ callResult = NoCall

SpecSynopsis == InitSynopsis /\ [][ApplyCreateDataSynopsis]_vars


\* computeStats alone: every sequence of up to MaxValues values of the model
InitStats ==
    /\ Mounted
    /\ welcomeCache = NoItem
    /\ \E n \in 0..MaxValues : \E q \in [1..n -> StatValues] : callArgs = [values |-> q]
    /\ callResult = NoCall

SpecStats == InitStats /\ [][ApplyComputeStats]_vars


\* both copies of the fetch client: the catalog, the stats and the profile are
\* requested and each request fails or is answered
NextClients ==
    \E cl \in Clients, c \in CatalogCalls : \E o \in ApiOutcomes(c) : ClientCall(cl, c, o)

SpecClients == InitApi /\ [][NextClients]_vars


\* the complexity heuristic alone, on a query of every combination of patterns
InitComplexity ==
    /\ Mounted
    /\ welcomeCache = NoItem
    /\ \E q \in ComplexityPrompts : callArgs = [query |-> q]
    /\ callResult = NoCall

SpecComplexity == InitComplexity /\ [][ApplyClassifyComplexity]_vars


\* the chat in use: sendPrompt is called with any text at any time, Reset also
\* while a request is outstanding, and the error boundary remounts the chat
NextSend ==
    \/ \E i \in DOMAIN loads :
          WelcomeResponse(i, [net |-> "ok",
                              body |-> Payload(Null, Arr(DataOne), Str("SELECT 1"))], "ok")
    \/ \E q \in SubmittedPrompts : nPrompts < MaxPrompts /\ SendPrompt(q)
    \/ \E r \in chatReqs, o \in NetOutcomes : ChatResponse(r, o)
    \/ HandleResetConversation
    \/ HandleChatHardReset

SpecSend == InitApi /\ [][NextSend]_vars


\* the chat answering prompts with responses of every shape, while the user moves
\* between the analysis and the map
NextShapes ==
    \/ \E a \in { "open-map", "open-analysis" } : HandleCommandAction(a, Null)
    \/ \E i \in DOMAIN loads :
          WelcomeResponse(i, [net |-> "ok",
                              body |-> Payload(Null, Arr(DataOne), Str("SELECT 1"))], "ok")
    \/ \E q \in Prompts : nPrompts < MaxPagePrompts /\ SendPrompt(q)
    \/ \E r \in chatReqs, o \in ShapedOutcomes : ChatResponse(r, o)
    \/ HandleResetConversation

SpecShapes == InitApi /\ [][NextShapes]_vars


\* the depth window across result sets: the welcome load brings rows with
\* pressures, the user sets filters in expert mode, and a prompt brings rows
\* without a numeric pressure
NextDepth ==
    \/ \E i \in DOMAIN loads :
          WelcomeResponse(i, [net |-> "ok",
                              body |-> Payload(Null, Arr(DataTwo), Str("SELECT 1"))], "ok")
    \/ \E q \in Prompts : nPrompts < MaxPagePrompts /\ SendPrompt(q)
    \/ \E r \in chatReqs :
          ChatResponse(r, [net |-> "ok",
                           body |-> Payload(Null, Arr(DataWithoutDepth), Str("SELECT 2"))])
    \/ \E m \in { "guided", "expert" } : HandleModeChange(m)
    \/ \E lo \in Depths(appData.data), hi \in Depths(appData.data) : HandleDepthChange(lo, hi)
    \/ \E v \in { "all" } \cup floatOptions(appData.data) : HandleFloatChange(v)

SpecDepth == InitApi /\ [][NextDepth]_vars

----------------------------------------------------------------------------
\* The claims

----------------------------------------------------------------------------
\* Properties of the chat's session counter

\* C1: when a prompt's request was outstanding at a reset of the conversation and
\* completes afterwards, its completion appends no message, invokes neither
\* onDataReceived nor onBackendStatusChange, and leaves the loading flag as it is,
\* whatever was sent after the reset.
C1_StaleResponseDiscarded ==
    [][ \A req \in chatReqs :
          (req \notin chatReqs' /\ req.resetSince /\ ev'.kind = "chatResponse")
          => /\ messages' = messages
             /\ chatIsLoading' = chatIsLoading
             /\ ev'.calls = {}
             /\ AppSlice' = AppSlice
             /\ summarySignatureRef' = summarySignatureRef ]_vars

\* a request outlived a reset and completed while the prompt sent after the reset
\* was still outstanding
C1_Witness ==
    /\ ev.kind = "chatResponse"
    /\ ev.stale
    /\ nResets = 1
    /\ nPrompts = 2
    /\ chatIsLoading
    /\ Cardinality(chatReqs) = 1

----------------------------------------------------------------------------
\* Properties of the welcome load

\* a response with no error, an array result and SQL text that is not null
StructurallyValid(response) ==
    /\ ~IsNull(response)
    /\ ~Truthy(response.error)
    /\ IsArr(response.result_data)
    /\ ~IsNull(response.sql_query)

\* a response with no error, an array result and SQL text that is not empty
ValidWithSql(response) ==
    /\ StructurallyValid(response)
    /\ IsStr(response.sql_query)
    /\ response.sql_query.str # ""

\* C2 as stated: no attempt follows a response with no error, an array result and
\* non-null SQL text.
C2_StopsAtNonNullSql ==
    (ev.kind = "welcomeResponse" /\ StructurallyValid(ev.response))
    => (loads[ev.id].pc = "done" /\ loads[ev.id].end = "success")

\* the attempts a load has made and how it stands
AttemptsInBounds(load) ==
    /\ load.calls \in 1..3
    /\ load.successes \in 0..1
    /\ load.successes = 1 <=> load.end = "success"
    /\ load.end # "running" <=> load.pc = "done"
    /\ load.end \in { "cached", "offline" } => load.calls = 3

\* C2 amended: a welcome load makes at most 3 attempts, the next attempt is made
\* only after a failed one, and no attempt follows the first response with no
\* error, an array result and non-empty SQL text; a response with empty SQL text
\* counts as a failure.
C2_WelcomeAttempts ==
    /\ [](/\ \A i \in DOMAIN loads : AttemptsInBounds(loads[i])
          /\ ev.kind = "welcomeResponse"
               => IF ValidWithSql(ev.response)
                  THEN loads[ev.id].pc = "done" /\ loads[ev.id].end = "success"
                  ELSE /\ loads[ev.id].end # "success"
                       /\ loads[ev.id].calls < 3 => loads[ev.id].pc = "backoff")
    /\ [][ \A i \in DOMAIN loads :
             /\ loads'[i].calls # loads[i].calls
                  => /\ loads[i].pc = "backoff"
                     /\ loads[i].successes = 0
                     /\ loads'[i].calls = loads[i].calls + 1
             /\ loads[i].pc = "done" => loads'[i] = loads[i] ]_vars

\* two failures, then a success: exactly three attempts
C2_Witness ==
    \E i \in DOMAIN loads :
        /\ loads[i].calls = 3
        /\ loads[i].end = "success"
        /\ backendStatus = "operational"
        /\ ev.kind = "welcomeResponse"
        /\ ev.id = i


\* C3 as stated: the delays are 400, 1600 and 3600 ms for attempts 1, 2 and 3, so
\* a load whose three attempts all failed has waited all three.
C3_ThreeDelays ==
    \A i \in DOMAIN loads :
        (loads[i].pc = "done" /\ loads[i].calls = 3 /\ loads[i].successes = 0)
        => loads[i].delays = << 400, 1600, 3600 >>

\* C3 amended: after failed attempt k (1-indexed) the load waits 400 * k * k ms
\* for k = 1 and k = 2, that is 400 ms and 1600 ms; no delay follows attempt 3.
C3_BackoffDelays ==
    \A i \in DOMAIN loads :
        /\ Len(loads[i].delays) \in 0..2
        /\ \A k \in 1..Len(loads[i].delays) : loads[i].delays[k] = 400 * k * k
        /\ Len(loads[i].delays) =
             IF loads[i].pc = "backoff" THEN loads[i].calls ELSE loads[i].calls - 1

\* a load failed three times: it waited 400 ms and 1600 ms and went on to the fallback
C3_Witness ==
    \E i \in DOMAIN loads :
        /\ loads[i].pc = "done"
        /\ loads[i].successes = 0
        /\ loads[i].delays = << 400, 1600 >>

\* the persisted snapshot localStorage holds, when it holds a valid one
ValidSnapshot(cache) ==
    /\ cache.item = "json"
    /\ IsArr(cache.value.data)
    /\ IsStr(cache.value.sqlQuery)

\* C4: a load that ends without a success made all its attempts and none succeeded;
\* it installs the persisted snapshot when a valid one can be read (status
\* degraded) and otherwise the empty result set with a null synopsis (status
\* offline); a load with a successful attempt never ends in the snapshot.
C4_FallbackAfterAllAttemptsFail ==
    /\ \A i \in DOMAIN loads :
         loads[i].end \in { "cached", "offline" }
         => (loads[i].successes = 0 /\ loads[i].calls = 3)
    /\ (ev.kind = "welcomeResponse" /\ loads[ev.id].end \in { "cached", "offline" })
       => /\ ~isLoading
          /\ IF ValidSnapshot(welcomeCache) /\ ev.persist = "getItem ok"
             THEN /\ loads[ev.id].end = "cached"
                  /\ appData = [ data |-> welcomeCache.value.data.arr,
                                 sqlQuery |-> welcomeCache.value.sqlQuery.str ]
                  /\ dataSynopsis = createDataSynopsis(appData.data)
                  /\ backendStatus = "degraded"
             ELSE /\ loads[ev.id].end = "offline"
                  /\ appData = [ data |-> << >>, sqlQuery |-> "" ]
                  /\ dataSynopsis = Null
                  /\ backendStatus = "offline"

\* all attempts failed and the snapshot was installed
C4_Witness ==
    /\ ev.kind = "welcomeResponse"
    /\ loads[ev.id].end = "cached"
    /\ loads[ev.id].calls = 3
    /\ appData.data = DataOne
    /\ backendStatus = "degraded"

\* C5: when the write of the snapshot throws during a successful attempt, the load
\* still ends with the fetched result set and its synopsis installed, the status
\* operational, the loading flag cleared, and no further attempt.
C5_PersistFailureCaught ==
    /\ [](( /\ ev.kind = "welcomeResponse"
            /\ ev.persist = "setItem throws"
            /\ ValidWithSql(ev.response) )
          => /\ appData = [ data |-> ev.response.result_data.arr,
                            sqlQuery |-> ev.response.sql_query.str ]
             /\ dataSynopsis = createDataSynopsis(ev.response.result_data.arr)
             /\ backendStatus = "operational"
             /\ ~isLoading
             /\ loads[ev.id].pc = "done"
             /\ loads[ev.id].end = "success")
    /\ [][ (ev'.kind = "welcomeResponse" /\ ev'.persist = "setItem throws")
           => /\ welcomeCache' = welcomeCache
              /\ loads'[ev'.id].calls = loads[ev'.id].calls ]_vars
    /\ [][ \A i \in DOMAIN loads : loads[i].pc = "done" => loads'[i] = loads[i] ]_vars

\* a load succeeded although the write of its snapshot threw
C5_Witness ==
    /\ ev.kind = "welcomeResponse"
    /\ ev.persist = "setItem throws"
    /\ ev.response = Payload(Null, Arr(DataTwo), Str("SELECT 1"))
    /\ loads[ev.id].end = "success"
    /\ appData.data = DataTwo
    /\ backendStatus = "operational"
    /\ ~isLoading


----------------------------------------------------------------------------
\* Properties of the fetch client

IsRecordWith(v, fields) == DOMAIN v = fields

IsSeqOfRecordsWith(v, fields) ==
    /\ DOMAIN v = 1..Len(v)
    /\ \A k \in 1..Len(v) : DOMAIN v[k] = fields

\* the shape of what each resource method resolves to on success
SuccessShape(call, v) ==
    CASE call.method = "getDatabaseStats" ->
           /\ IsRecordWith(v, { "total_floats", "last_updated", "dataset" })
           /\ IsNum(v.total_floats)
      [] call.method = "getArgoFloats" ->
           /\ IsRecordWith(v, { "data", "source" })
           /\ IsSeqOfRecordsWith(v.data, { "id", "lat", "lon", "last_contact", "status" })
      [] call.method = "getFloatProfile" ->
           /\ IsRecordWith(v, { "depth", "values", "quality_flags" })
           /\ Len(v.depth) = Len(v.values)
           /\ Len(v.depth) = Len(v.quality_flags)
      [] call.method = "getTimeSeriesData" ->
           /\ IsRecordWith(v, { "data", "sqlQuery" })
           /\ IsSeqOfRecordsWith(v.data, { "week", "temperature", "pressure" })
      [] call.method = "getDataQuality" ->
           IsSeqOfRecordsWith(v, { "metric", "value" })
      [] OTHER ->
           IsSeqOfRecordsWith(v, { "lat", "lon", "timestamp", "temperature",
                                   "salinity", "pressure" })

FailedCalls == { k \in 1..Len(apiLog) : apiLog[k].net # "ok" }

WithoutTimestamps(points) ==
    [k \in 1..Len(points) |->
        [f \in DOMAIN points[k] \ { "timestamp" } |-> points[k][f]]]

----------------------------------------------------------------------------
\* Properties of the backend status

\* the backend answered with an error, or with a result set without rows
EmptyOrError(outcome) ==
    /\ outcome.net = "ok"
    /\ ~IsNull(outcome.body)
    /\ \/ Truthy(outcome.body.error)
       \/ IsArr(outcome.body.result_data) /\ Len(outcome.body.result_data.arr) = 0

\* the backend answered with rows and SQL text, and no error
NonEmptySuccess(outcome) ==
    /\ outcome.net = "ok"
    /\ ValidWithSql(outcome.body)
    /\ Len(outcome.body.result_data.arr) > 0

\* a fetch cycle ends with this step: a chat query whose response is not discarded,
\* or the last response of a welcome load
ChatCycleEnds(req, outcome) == ChatResponse(req, outcome) /\ ~ev'.stale
WelcomeCycleEnds(i, outcome, storage) ==
    WelcomeResponse(i, outcome, storage) /\ loads'[i].pc = "done"

\* C8: the status is always operational, degraded or offline; a fetch cycle that
\* ends with an empty result or an error moves it from operational to degraded,
\* and one that ends with a non-empty result moves it from degraded to operational.
C8_StatusTransitions ==
    /\ [](backendStatus \in { "operational", "degraded", "offline" })
    /\ [][ /\ \A req \in chatReqs, o \in NetOutcomes :
                ChatCycleEnds(req, o)
                => /\ (EmptyOrError(o) /\ backendStatus = "operational")
                        => backendStatus' = "degraded"
                   /\ (NonEmptySuccess(o) /\ backendStatus = "degraded")
                        => backendStatus' = "operational"
           /\ \A i \in DOMAIN loads, o \in NetOutcomes, st \in StorageOutcomes :
                WelcomeCycleEnds(i, o, st)
                => /\ (EmptyOrError(o) /\ backendStatus = "operational")
                        => backendStatus' = "degraded"
                   /\ (NonEmptySuccess(o) /\ backendStatus = "degraded")
                        => backendStatus' = "operational" ]_vars

\* C9: when the request of a fetch cycle fails at the transport level (fetch
\* rejects, or the status is not 2xx), the status after the cycle is offline.
C9_TransportFailureForcesOffline ==
    [][ /\ \A req \in chatReqs, o \in AskFailures :
             ChatCycleEnds(req, o) => backendStatus' = "offline"
        /\ \A i \in DOMAIN loads, o \in AskFailures, st \in StorageOutcomes :
             WelcomeCycleEnds(i, o, st) => backendStatus' = "offline" ]_vars

\* a request to the AI endpoint is outstanding, or a welcome load is between attempts
RequestInFlight ==
    \/ chatReqs # {}
    \/ \E i \in DOMAIN loads : loads[i].pc # "done"

----------------------------------------------------------------------------
\* Concurrent writers of the session result set

\* the operation of the step recorded in e: a welcome load or a chat query
IsCompletion(e) == e.kind \in { "welcomeResponse", "chatResponse" }

\* the step recorded in e installed a result set: a welcome load that ended, or a
\* chat response that was not discarded and called onDataReceived
Installed(e, ls) ==
    \/ e.kind = "welcomeResponse" /\ ls[e.id].pc = "done"
    \/ e.kind = "chatResponse" /\ ~e.stale /\ "onDataReceived" \in e.calls

\* the operation of x started before the operation of y.  Welcome load i starts
\* when the chat instance key becomes i - 1; a chat query of instance k starts
\* while the key is k.
StartedBefore(x, y) ==
    CASE x.kind = "welcomeResponse" /\ y.kind = "welcomeResponse" -> x.id < y.id
      [] x.kind = "welcomeResponse" /\ y.kind = "chatResponse" -> x.id - 1 <= y.id
      [] x.kind = "chatResponse" /\ y.kind = "welcomeResponse" -> x.id < y.id - 1
      [] OTHER -> FALSE

\* C11: an operation that completes later never overwrites the result installed
\* by an operation that started after it: when a welcome load or a chat query has
\* just installed the session result set, the completion of an operation that
\* started before it leaves the result set and its synopsis as they are.
C11_NoLateOverwrite ==
    [][ ( /\ IsCompletion(ev) /\ Installed(ev, loads)
          /\ IsCompletion(ev') /\ StartedBefore(ev', ev) )
        => (appData' = appData /\ dataSynopsis' = dataSynopsis) ]_vars

----------------------------------------------------------------------------
\* The detail fetches of a selected float

\* what a detail fetch delivers: the body of the backend, or the method's own fallback
OwnResult(method, net, t) ==
    IF net = "ok" THEN LiveBody(DetailCall(method))
    ELSE CASE method = "getFloatTrajectory" -> SyntheticTrajectory(TrajectoryLimit, t)
           [] method = "getDataQuality" -> SAMPLE_QUALITY
           [] method = "getFloatProfile" -> SAMPLE_PROFILE
           [] OTHER -> SAMPLE_TIME_SERIES

\* a detail load that ended set the combined detail state from the four results,
\* each the backend's answer or the fallback of the fetch that failed; no load
\* ends in its catch block
JoinedWithFallbacks ==
    /\ ev.kind # "detailsFailed"
    /\ ev.kind = "detailsLoaded"
       => /\ ev.response.pending = {}
          /\ \A m \in DetailFetches :
                ev.response.got[m] = Returns(OwnResult(m, ev.response.nets[m], now))
          /\ details = DetailState(ev.response)
          /\ ~detailsLoading

\* C12 as stated: a detail load has all four fetches outstanding at once before
\* any of them resolves, joins them, and delivers each result or its fallback.
C12_AllFourOutstanding ==
    /\ \A k \in DOMAIN detailRuns :
          (\A m \in DetailFetches : detailRuns[k].got[m] = NoResponse)
          => detailRuns[k].pending = DetailFetches
    /\ JoinedWithFallbacks

\* C12: a detail load issues its fetches in two concurrent pairs, trajectory with
\* quality first and profile with time series once both have resolved, so at most
\* two fetches of a load are outstanding at once; it joins each pair before the
\* combined detail state is set, and a fetch that fails delivers its own fallback
\* while the results of the others are delivered with it.
C12_TwoConcurrentPairs ==
    /\ \A k \in DOMAIN detailRuns :
          LET run == detailRuns[k]
          IN /\ run.pending # {}
             /\ Cardinality(run.pending) <= 2
             /\ \/ run.pending \subseteq { "getFloatTrajectory", "getDataQuality" }
                \/ run.pending \subseteq { "getFloatProfile", "getTimeSeriesData" }
             /\ run.pending \cap { "getFloatProfile", "getTimeSeriesData" } # {}
                => /\ run.got["getFloatTrajectory"] # NoResponse
                   /\ run.got["getDataQuality"] # NoResponse
             /\ run.pending \cap { "getFloatTrajectory", "getDataQuality" } # {}
                => /\ run.got["getFloatProfile"] = NoResponse
                   /\ run.got["getTimeSeriesData"] = NoResponse
    /\ JoinedWithFallbacks

\* the profile fetch of a selected float failed and the trajectory fetch was
\* answered: the detail state holds the sample profile and the live trajectory
C12_Witness ==
    /\ ev.kind = "detailsLoaded"
    /\ ev.response.nets["getFloatProfile"] = "reject"
    /\ ev.response.nets["getFloatTrajectory"] = "ok"
    /\ details.profile = SAMPLE_PROFILE
    /\ details.trajectory = LiveBody(DetailCall("getFloatTrajectory"))
    /\ nSelects = 1

----------------------------------------------------------------------------
\* Termination of the welcome load

\* the status each way of ending the welcome load sets
EndStatus(end) ==
    CASE end = "success" -> "operational"
      [] end = "cached" -> "degraded"
      [] OTHER -> "offline"

\* C13: provided every request resolves or fails in the end, every welcome load
\* terminates, after at most 3 attempts and 2 backoff waits, and the step that ends
\* it (success, cached snapshot or offline) clears the loading flag and sets the
\* backend status of its branch.
C13_WelcomeLoadTerminates ==
    /\ \A i \in 1..(MaxHardResets + 1) :
          (i \in DOMAIN loads) ~> (i \in DOMAIN loads /\ loads[i].pc = "done")
    /\ [](\A i \in DOMAIN loads :
             /\ loads[i].calls <= 3
             /\ Len(loads[i].delays) <= 2
             /\ loads[i].pc = "done" <=> loads[i].end \in { "success", "cached", "offline" })
    /\ [][ \A i \in DOMAIN loads :
             (loads[i].pc # "done" /\ loads'[i].pc = "done")
             => /\ ~isLoading'
                /\ backendStatus' = EndStatus(loads'[i].end) ]_vars

\* a welcome load ended offline after three failed attempts and two backoff waits,
\* with the loading flag cleared
C13_Witness ==
    /\ loads[1].pc = "done"
    /\ loads[1].end = "offline"
    /\ loads[1].calls = 3
    /\ Len(loads[1].delays) = 2
    /\ ~isLoading
    /\ backendStatus = "offline"

----------------------------------------------------------------------------
\* The expert-mode filter pipeline

\* the row satisfies the filters as C14 reads them: the entity filter when one is
\* set, the depth range when one is set, a null bound constraining nothing
SatisfiesFilters(row, filters) ==
    /\ Truthy(filters.floatId) => StringOf(Get(row, "float_id")) = filters.floatId.str
    /\ ~IsNull(filters.depthRange)
       => LET p == Get(row, "pressure")
              lo == filters.depthRange.arr[1]
              hi == filters.depthRange.arr[2]
          IN /\ IsNum(p)
             /\ IsNull(lo) \/ lo.num <= p.num
             /\ IsNull(hi) \/ p.num <= hi.num

----------------------------------------------------------------------------
\* Filtering and the source result set

\* the steps that change the filters or the mode
FilterGestures == { "depthChange", "floatChange", "focusChange", "command", "modeChange" }

\* C15: a change of the entity filter, the depth range, the focus metric or the
\* mode leaves the session result set as it is, the same rows in the same order,
\* and when it leaves all filters cleared the derived view equals the result set.
C15_FilteringLeavesSource ==
    [][ ev'.kind \in FilterGestures
        => /\ appData' = appData
           /\ expertFilters' = DefaultFilters
              => filteredData(appData'.data, expertFilters', mode') = appData.data ]_vars

\* in expert mode the entity filter and the depth range narrow the view to one row
\* while the result set still holds the two rows it received
C15_Witness ==
    /\ ev.kind \in { "floatChange", "depthChange" }
    /\ mode = "expert"
    /\ Truthy(expertFilters.floatId)
    /\ ~IsNull(expertFilters.depthRange)
    /\ appData.data = DataTwo
    /\ Len(filteredData(appData.data, expertFilters, mode)) = 1

----------------------------------------------------------------------------
\* The single message synthesized for a response without structured messages

\* the response carries no structured messages
Unstructured(payload) == ~IsArr(payload.messages) \/ Len(payload.messages.arr) = 0

StringResult(payload) ==
    IsStr(payload.result_data) /\ Trim(payload.result_data.str) # ""

\* the generic texts: that of the normalizer and that of sendPrompt
GenericTexts == { Str("I'm still processing that"), Str("I'm not sure how to answer that.") }

\* C16 as stated: for a response without structured messages that sendPrompt
\* normalizes, the single message's content is the error text if an error is
\* present, else the string result if non-blank, else a generic fallback text.
C16_ErrorResultGeneric ==
    ( /\ callResult # NoCall
      /\ Unstructured(callArgs.payload)
      /\ callArgs.fallbackText = fallbackContent(callArgs.payload) )
    => /\ Len(callResult.value) = 1
       /\ callResult.value[1].content =
             IF Truthy(callArgs.payload.error) THEN [errorText |-> callArgs.payload.error]
             ELSE IF StringResult(callArgs.payload)
                  THEN Str(Trim(callArgs.payload.result_data.str))
             ELSE callResult.value[1].content
       /\ (~Truthy(callArgs.payload.error) /\ ~StringResult(callArgs.payload))
          => callResult.value[1].content \in GenericTexts

\* C16: for a response without structured messages the normalizer returns exactly
\* one message; its content is the caller's fallback text, trimmed, when that is
\* non-blank, else the string result if non-blank, else the error text if present,
\* else a generic text.  sendPrompt passes the error text if an error is present,
\* else a summary of the array result, else the string result if non-blank, else
\* a generic text.
C16_NormalizerPriority ==
    (callResult # NoCall /\ Unstructured(callArgs.payload))
    => LET payload == callArgs.payload
           passed == callArgs.fallbackText
           content == callResult.value[1].content
       IN /\ Len(callResult.value) = 1
          /\ callResult.value[1].sender = "assistant"
          /\ NonBlank(passed) => content = TrimValue(passed)
          /\ (~NonBlank(passed) /\ StringResult(payload))
                => content = Str(Trim(payload.result_data.str))
          /\ (~NonBlank(passed) /\ ~StringResult(payload) /\ Truthy(payload.error))
                => content = [errorText |-> payload.error]
          /\ (~NonBlank(passed) /\ ~StringResult(payload) /\ ~Truthy(payload.error))
                => content = Str("I'm still processing that")
          /\ passed = fallbackContent(payload)
                => /\ Truthy(payload.error) => content = [errorText |-> payload.error]
                   /\ (~Truthy(payload.error) /\ IsArr(payload.result_data))
                         => content \in { [pulled |-> Len(payload.result_data.arr)],
                                          Str("The query ran successfully but returned no rows.") }
                   /\ (~Truthy(payload.error) /\ StringResult(payload))
                         => content = Str(Trim(payload.result_data.str))
                   /\ (~Truthy(payload.error) /\ ~IsArr(payload.result_data)
                          /\ ~StringResult(payload))
                         => content = Str("I'm not sure how to answer that.")

\* a response with both an error and a string result, normalized by sendPrompt:
\* the single message carries the error text
C16_Witness ==
    /\ callResult # NoCall
    /\ Unstructured(callArgs.payload)
    /\ Truthy(callArgs.payload.error)
    /\ StringResult(callArgs.payload)
    /\ callArgs.fallbackText = fallbackContent(callArgs.payload)
    /\ callResult.value[1].content = [errorText |-> callArgs.payload.error]

----------------------------------------------------------------------------
\* The complexity score and the persona mode

\* C17: a submitted prompt adds its delta to the score, floored at 0, and promotes
\* guided mode to expert when the score reaches the threshold 4; a switch to guided
\* mode and the error boundary's reset put the score back to 0; so the score is
\* never negative and is below 4 whenever the mode is guided.
C17_ScoreAndMode ==
    /\ [](complexityScore >= 0 /\ (mode = "guided" => complexityScore < 4))
    /\ [][ /\ ev'.kind = "sendPrompt"
              => \E q \in ScoredPrompts :
                    LET delta == classifyComplexity(evaluateComplexity(q))
                        sum == complexityScore + delta
                    IN /\ complexityScore' = IF sum > 0 THEN sum ELSE 0
                       /\ mode' = IF mode = "guided" /\ complexityScore' >= 4
                                  THEN "expert" ELSE mode
           /\ (ev'.kind \in { "modeChange", "command" } /\ mode' = "guided" /\ mode # "guided")
              => complexityScore' = 0
           /\ ev'.kind = "hardReset" => (complexityScore' = 0 /\ mode' = "guided") ]_vars

\* two prompts took the score from 0 to the threshold and the mode from guided to
\* expert
C17_Witness ==
    /\ ev.kind = "sendPrompt"
    /\ nPrompts = 2
    /\ complexityScore = 4
    /\ mode = "expert"
    /\ chatInstanceKey = 0

----------------------------------------------------------------------------
\* The synopsis signature under reordering

\* C18: two result sets with the same rows in a different order, and so also
\* two equal result sets, yield identical signatures.  (Column names of the model
\* hold neither "|" nor "-", so the signature string is modelled by the triple it
\* is joined from.)
C18_SignatureOrderInsensitive ==
    callResult # NoCall
    => SignatureOf(callResult.first) = SignatureOf(callResult.second)

----------------------------------------------------------------------------
\* The result set and its synopsis

\* C19: in every state the synopsis is the synopsis computed from the current
\* result set: null exactly when the result set is empty, and otherwise with a
\* signature of the current row count, column list and distinct-entity count.
C19_SynopsisMatchesResultSet ==
    /\ dataSynopsis = createDataSynopsis(appData.data)
    /\ IsNull(dataSynopsis) <=> Len(appData.data) = 0
    /\ ~IsNull(dataSynopsis)
       => dataSynopsis.signature =
             [sig |-> << Len(appData.data), Keys(appData.data[1]),
                         Len(SynopsisFloatIds(appData.data)) >>]

\* a chat query installed a result set with rows after the welcome load had ended
\* with another, and the synopsis is that of the rows now shown
C19_Witness ==
    /\ ev.kind = "chatResponse"
    /\ "onDataReceived" \in ev.calls
    /\ loads[1].pc = "done"
    /\ Len(appData.data) > 0
    /\ ~IsNull(dataSynopsis)
    /\ dataSynopsis.signature = [sig |-> << 1, << "float_id", "pressure" >>, 1 >>]

----------------------------------------------------------------------------
\* computeStats

\* the sequence is in nondecreasing order
Nondecreasing(q) == \A i, j \in 1..Len(q) : i <= j => q[i] <= q[j]

\* C20: computeStats returns null for the empty input; otherwise count is the
\* length, min and max are the smallest and the largest value, and the median is
\* the middle element of the values in nondecreasing order for an odd length and
\* the average of the two middle elements for an even length; the input sequence
\* holds the same elements in the same order afterwards.
C20_ComputeStats ==
    callResult # NoCall
    => LET values == callArgs.values
           n == Len(values)
           stats == callResult.value
       IN /\ n = 0 <=> IsNull(stats)
          /\ callResult.values = values
          /\ n > 0
             => /\ stats.count = n
                /\ \E i \in 1..n : values[i] = stats.min
                /\ \A i \in 1..n : stats.min <= values[i]
                /\ \E i \in 1..n : values[i] = stats.max
                /\ \A i \in 1..n : values[i] <= stats.max
                /\ \E sorted \in Reorderings(values) :
                      /\ Nondecreasing(sorted)
                      /\ n % 2 = 1 => stats.median = Halves(2 * sorted[(n + 1) \div 2])
                      /\ n % 2 = 0
                         => stats.median = Halves(sorted[n \div 2] + sorted[n \div 2 + 1])

\* four values out of order with a median between two of them: 7, -5, 200, 0 has
\* the median 3.5, the minimum -5 and the maximum 200, and is left as it was
C20_Witness ==
    /\ callResult # NoCall
    /\ callArgs.values = << 7, -5, 200, 0 >>
    /\ callResult.values = << 7, -5, 200, 0 >>
    /\ callResult.value.median = Halves(7)
    /\ callResult.value.min = -5
    /\ callResult.value.max = 200
    /\ callResult.value.count = 4

----------------------------------------------------------------------------
\* Properties of the sample data

\* the entry of the sample fleet the specification names
IsNamedSampleFloat(f) ==
    f.id = "5905612" /\ f.lat = -33500 /\ f.lon = 151300 /\ f.status = "active"

\* C21: when the catalog fetch fails the client returns the sample fleet of exactly
\* 6 entries that contains entity "5905612" at lat -33.5, lon 151.3 with status
\* "active"; when the profile fetch fails it resolves to the sample profile with
\* depth [0,200,500,1000] and values [20.2,15.1,8.3,4.2]; the stats fallback
\* reports total_floats equal to the size of that sample fleet.
C21_SampleFleetAndProfile ==
    \A k \in FailedCalls :
        LET e == apiLog[k]
        IN /\ e.call.method = "getArgoFloats"
                => /\ Len(CatalogOf(e.client, e.result.value)) = 6
                   /\ \E n \in 1..Len(CatalogOf(e.client, e.result.value)) :
                         IsNamedSampleFloat(CatalogOf(e.client, e.result.value)[n])
           /\ e.call.method = "getFloatProfile"
                => /\ e.result.value.depth = << 0, 200, 500, 1000 >>
                   /\ e.result.value.values = << 2020, 1510, 830, 420 >>
           /\ e.call.method = "getDatabaseStats"
                => e.result.value.total_floats = Num(6)

----------------------------------------------------------------------------
\* Properties of the summary effect

\* the summary messages of the conversation, in order
Summaries(msgs) == SelectSeq(msgs, LAMBDA m : m.type = "summary")

\* the step replaced the conversation by the welcome message
ConversationCleared == ev'.kind \in { "reset", "hardReset" }

\* C22: the chat appends a summary message only when the current synopsis is not
\* null and its signature differs from the signature of the last summarized
\* synopsis, and then it remembers that signature; a result set whose signature is
\* the remembered one appends no second summary; a reset of the chat clears the
\* remembered signature.
C22_SummaryOncePerSignature ==
    [][ /\ ~ConversationCleared
           => \/ /\ Summaries(messages') = Summaries(messages)
                 /\ summarySignatureRef' = summarySignatureRef
                 /\ IsNull(dataSynopsis') \/ dataSynopsis'.signature = summarySignatureRef
              \/ /\ ~IsNull(dataSynopsis')
                 /\ dataSynopsis'.signature # summarySignatureRef
                 /\ Summaries(messages') = Append(Summaries(messages), SummaryMessage(dataSynopsis'))
                 /\ summarySignatureRef' = dataSynopsis'.signature
        /\ ConversationCleared
           => /\ summarySignatureRef' = Null
              /\ Summaries(messages') = << >> ]_vars

\* a prompt brought a result set with the signature of the welcome data: the
\* handler installed it and the conversation still holds the one summary
C22_Witness ==
    /\ ev.kind = "chatResponse"
    /\ "onDataReceived" \in ev.calls
    /\ ~IsNull(dataSynopsis)
    /\ dataSynopsis.signature = summarySignatureRef
    /\ Len(Summaries(messages)) = 1
    /\ messages[2].type = "summary"
    /\ Len(messages) >= 4
    /\ nResets = 0

----------------------------------------------------------------------------
\* Properties of the distinct-entity extraction

\* the identifier of a row: the value under the first of float_id, float, id that
\* is there, as a trimmed string; none when no key is there or the string is blank
IdentifierOf(row) ==
    LET present == SelectSeq(<< "float_id", "float", "id" >>,
                             LAMBDA key : ~IsNull(Get(row, key)))
        value == Get(row, present[1])
    IN IF present = << >> THEN Null
       ELSE IF IsNum(value) THEN Str(NumToString(value.num))
       ELSE IF Trim(value.str) = "" THEN Null
       ELSE Str(Trim(value.str))

\* the rows of a result set that carry an identifier, and the first row of each
Identified(data) == { i \in 1..Len(data) : ~IsNull(IdentifierOf(data[i])) }
FirstSeen(data, id) ==
    CHOOSE i \in Identified(data) :
        /\ IdentifierOf(data[i]) = id
        /\ \A j \in Identified(data) : IdentifierOf(data[j]) = id => i <= j

\* the identifiers are those of the rows, each once, in the order of their first rows
ExtractedInOrder(data, ids) ==
    /\ { ids[k] : k \in 1..Len(ids) } = { IdentifierOf(data[i]) : i \in Identified(data) }
    /\ \A k, l \in 1..Len(ids) :
          k < l => FirstSeen(data, ids[k]) < FirstSeen(data, ids[l])

\* C23 as stated: the identifiers are extracted in first-seen order, and the
\* distinct count in the headline and in the signature is their full number.
C23_HeadlineCountsAll ==
    (callResult # NoCall /\ Len(callArgs.data) > 0)
    => /\ ExtractedInOrder(callArgs.data, callResult.floatIds)
       /\ callResult.first.signature.sig[3] = Len(callResult.floatIds)
       /\ callResult.first.headline[3] = Num(Len(callResult.floatIds))

\* C23 amended: each row's identifier is the first present of float_id, float, id
\* as a trimmed string, missing and blank ones are dropped, duplicates are removed
\* in first-seen order; the distinct count in the signature is the full number of
\* distinct identifiers with no cap, and so is the one in the headline unless no
\* row carries an identifier, when the headline says "several"; the sample entity
\* is the first identifier, and absent when there is none.
C23_DistinctEntities ==
    (callResult # NoCall /\ Len(callArgs.data) > 0)
    => LET ids == callResult.floatIds
           synopsis == callResult.first
       IN /\ ExtractedInOrder(callArgs.data, ids)
          /\ synopsis.signature.sig[3] = Cardinality(
                 { IdentifierOf(callArgs.data[i]) : i \in Identified(callArgs.data) })
          /\ synopsis.headline[3] = IF Identified(callArgs.data) = {} THEN Str("several")
                                    ELSE Num(Len(ids))
          /\ synopsis.sampleFloat =
                 IF Identified(callArgs.data) = {} THEN Null
                 ELSE IdentifierOf(callArgs.data[
                          CHOOSE i \in Identified(callArgs.data) :
                              \A j \in Identified(callArgs.data) : i <= j])

\* three rows with three distinct identifiers: a number under id, a string with
\* blanks around it under float beside a null float_id, a string under float_id
C23_Witness ==
    /\ callResult # NoCall
    /\ callArgs.data = << RowG, RowF, RowB >>
    /\ callResult.floatIds = << Str("10"), Str("5905612"), Str("5905613") >>
    /\ callResult.first.headline[3] = Num(3)
    /\ callResult.first.sampleFloat = Str("10")

----------------------------------------------------------------------------
\* Properties of the persisted welcome cache

StorageWrites == { "setItem ok", "setItem throws" }
StorageReads == { "getItem ok", "getItem throws" }

\* C24: the persisted welcome cache is written only by an attempt of a welcome load
\* that received a structurally valid response, and read only after all attempts
\* of a welcome load have failed; prompts, chat responses, resets and the fallback
\* branches never write it, so a load that failed leaves the stored snapshot as it
\* was.
C24_CacheWrittenOnlyOnSuccess ==
    [][ /\ ev'.persist \in StorageWrites
           => /\ ev'.kind = "welcomeResponse"
              /\ StructurallyValid(ev'.response)
        /\ welcomeCache' # welcomeCache
           => /\ ev'.persist = "setItem ok"
              /\ welcomeCache' = SnapshotItem([ data |-> ev'.response.result_data.arr,
                                                sqlQuery |-> ev'.response.sql_query.str ])
        /\ ev'.persist \in StorageReads
           => /\ ev'.kind = "welcomeResponse"
              /\ loads'[ev'.id].calls = maxAttempts
              /\ loads'[ev'.id].successes = 0
              /\ loads[ev'.id].pc = "await"
              /\ loads'[ev'.id].end \in { "cached", "offline" }
        /\ \A i \in DOMAIN loads :
              (loads[i].end = "running" /\ loads'[i].end \in { "cached", "offline" })
              => welcomeCache' = welcomeCache ]_vars

\* the first load stored an empty result set over the cached snapshot; after a
\* reset by the error boundary the second load failed three times and read it back
C24_Witness ==
    /\ Len(loads) = 2
    /\ loads[1].end = "success"
    /\ loads[2].end = "cached"
    /\ loads[2].calls = 3
    /\ ev.kind = "welcomeResponse"
    /\ ev.persist = "getItem ok"
    /\ welcomeCache = SnapshotItem([data |-> << >>, sqlQuery |-> "SELECT 1"])
    /\ appData = [data |-> << >>, sqlQuery |-> "SELECT 1"]

----------------------------------------------------------------------------
\* Properties of the complexity heuristic

\* C25: for every query the score is an integer in 0..12 and the classifier
\* returns a delta in {-1, 1, 2, 3}: -1 for score 0, 1 for 1..3, 2 for 4..5, 3 for
\* 6 and more; a query that scores at least as much gets at least the same delta.
C25_ClassificationTotalMonotone ==
    callResult # NoCall
    => /\ callResult.score \in 0..12
       /\ callResult.delta \in { -1, 1, 2, 3 }
       /\ callResult.score = 0 <=> callResult.delta = -1
       /\ callResult.score \in 1..3 <=> callResult.delta = 1
       /\ callResult.score \in 4..5 <=> callResult.delta = 2
       /\ callResult.score >= 6 <=> callResult.delta = 3
       /\ \A q \in ComplexityPrompts :
             evaluateComplexity(q) >= callResult.score
             => classifyComplexity(evaluateComplexity(q)) >= callResult.delta

\* a query matching one conditional pattern and nothing else scores 1 and raises
\* the complexity score by 1
C25_Witness ==
    /\ callResult # NoCall
    /\ callArgs.query.conditional
    /\ ~callArgs.query.advanced /\ ~callArgs.query.analytic /\ ~callArgs.query.geospatial
    /\ ~callArgs.query.long /\ ~callArgs.query.parens
    /\ callResult = [score |-> 1, delta |-> 1]

----------------------------------------------------------------------------
\* Properties of the detail state of the map

\* the detail load that wrote the detail state last, when the last step was the end
\* of a detail load
LastDetailWriter == ev.response

\* C26: once all detail loads in flight have completed, the detail state holds the
\* data fetched for the float that is selected, and never that of a float selected
\* before, in whatever order the responses arrive.
C26_DetailsOfSelectedFloat ==
    (detailRuns = << >> /\ ev.kind \in { "detailsLoaded", "detailsFailed" })
    => /\ selectedFloatId = Str(LastDetailWriter.floatId)
       /\ ev.kind = "detailsLoaded" => details = DetailState(LastDetailWriter)

----------------------------------------------------------------------------
\* Properties of the loading flag of the chat

\* the requests outstanding that the current session of the mounted chat sent
OutstandingOfSession ==
    { r \in chatReqs : r.inst = chatInstanceKey /\ r.session = sessionIdRef[chatInstanceKey] }

\* C27: within one session of the chat at most one request of a prompt is
\* outstanding: a prompt is sent only when no request of the session is
\* outstanding, the flag is clear and the trimmed text is not empty; the loading
\* flag is set exactly while a request of the current session is outstanding, so
\* the completion of that request in its session, or a reset, clears it.
C27_OneRequestPerSession ==
    /\ [](/\ chatIsLoading <=> OutstandingOfSession # {}
          /\ \A k \in 1..Len(messages) :
                messages[k].sender = "user" => Trim(messages[k].content.str) # "")
    /\ [][ ev'.kind = "sendPrompt"
           => /\ ~chatIsLoading
              /\ OutstandingOfSession = {}
              /\ Cardinality(chatReqs') = Cardinality(chatReqs) + 1
              /\ Cardinality(OutstandingOfSession') = 1 ]_vars

\* a second prompt was sent after a reset while the request of the first was
\* outstanding, and the request of the second has completed: the flag is clear
\* though the request of the earlier session is still outstanding
C27_Witness ==
    /\ ev.kind = "chatResponse"
    /\ ~ev.stale
    /\ nPrompts = 2
    /\ nResets = 1
    /\ Cardinality(chatReqs) = 1
    /\ ~chatIsLoading
    /\ \E r \in chatReqs : r.resetSince

----------------------------------------------------------------------------
\* Properties of the answer to a prompt

\* the messages a step appended to the conversation
Appended == SubSeq(messages', Len(messages) + 1, Len(messages'))

\* the request of the current session completes
AnswerArrives == ev'.kind = "chatResponse" /\ ~ev'.stale

\* C28: every prompt whose response arrives in the session that sent it appends at
\* least one assistant message after the user's message, whatever the shape of the
\* response.
C28_EveryPromptAnswered ==
    [][ AnswerArrives
        => /\ Len(messages') > Len(messages)
           /\ SubSeq(messages', 1, Len(messages)) = messages
           /\ \E k \in 1..Len(Appended) : Appended[k].sender = "assistant" ]_vars

----------------------------------------------------------------------------
\* Properties of the frame of a chat response

\* a response with no error whose result is no array: a narrative string, or
\* nothing usable
NarrativeOrUnusable(response) ==
    IsNull(response) \/ (~Truthy(response.error) /\ ~IsArr(response.result_data))

\* C29: a chat response that is a narrative string, or that has neither an error
\* nor a usable result, leaves the result set, the SQL text, the synopsis and the
\* active tab as they were; an error response and an array result replace the
\* result set and open the analysis tab.
C29_NarrativeLeavesResultSet ==
    [][ \A req \in chatReqs, o \in ShapedOutcomes :
          (ChatResponse(req, o) /\ ~ev'.stale)
          => IF NarrativeOrUnusable(askAI(o))
             THEN /\ appData' = appData
                  /\ dataSynopsis' = dataSynopsis
                  /\ activeTab' = activeTab
             ELSE /\ appData'.data = IF Truthy(askAI(o).error) THEN << >>
                                     ELSE askAI(o).result_data.arr
                  /\ dataSynopsis' = createDataSynopsis(appData'.data)
                  /\ activeTab' = "analysis" ]_vars

\* with the welcome data shown and the map open, a prompt was answered with a
\* narrative
C29_Witness ==
    /\ ev.kind = "chatResponse"
    /\ ~ev.stale
    /\ "onDataReceived" \notin ev.calls
    /\ messages[Len(messages)].content = Str("narrative")
    /\ messages[Len(messages) - 1].sender = "user"
    /\ activeTab = "map"
    /\ appData = [data |-> DataOne, sqlQuery |-> "SELECT 1"]
    /\ ~IsNull(dataSynopsis)

----------------------------------------------------------------------------
\* Properties of the depth window across result sets

\* the rows of a result set that the entity filter lets through
EntityFiltered(data, filters) ==
    SelectSeq(data, LAMBDA row :
        ~Truthy(filters.floatId) \/ StringOf(Get(row, "float_id")) = filters.floatId.str)

\* C30: in expert mode, when the result set shown has no numeric pressure (the
\* depth bounds are null and the depth window is shown as unavailable), no row is
\* excluded on account of depth: the derived view is the result set restricted by
\* the entity filter alone, also when a depth range was set on an earlier result
\* set and a query then replaced the data.
C30_NoDepthNoExclusion ==
    (mode = "expert" /\ ~isLoading /\ IsNull(depthBounds(appData.data)))
    => filteredData(appData.data, expertFilters, mode)
         = EntityFiltered(appData.data, expertFilters)

====
